---- MODULE Spec2Model ----
(***************************************************************************)
(* Verification model of the trawl search engine core:                     *)
(*   - IndexingWorker (services/indexing/internal/worker): retry and       *)
(*     dead-letter discipline, batched posting writes, document record.    *)
(*   - AutoScalingConsumer (auto-scaling worker pool).                     *)
(*   - Searcher (services/search/internal/service/query.go): shard fan-out *)
(*     and the top-K merge over a min-heap.                                *)
(***************************************************************************)
EXTENDS Integers, Sequences, FiniteSets, TLC

(***************************************************************************)
(* Bounds of the model.                                                    *)
(***************************************************************************)
\* number of indexing jobs published to the primary queue
NumJobs == 1
\* largest number of distinct terms of a document
MaxWords == 2
\* w.batchSize, scaled down so that a job has several batches
BatchSize == 1

\* NewIndexingWorker: maxRetries: 3
maxRetries == 3

Jobs == 1..NumJobs
\* IndexingWorker goroutines; w.concurrency is 5 in NewIndexingWorker, two
\* are what one job can keep busy at once (a republished copy can be taken
\* while the original delivery is not yet acked)
Workers == {1, 2}

\* What a job's bytes / identifiers are like.  "missing": the object does not
\* exist in the object store; "unparseable": no registered parser accepts the
\* bytes; "empty": the text tokenizes to nothing; "baduuid": doc_id is not a
\* UUID; "malformed": the message body is not a JSON indexing job.
JobKinds == {"good", "missing", "unparseable", "empty", "baduuid", "malformed"}
PermanentErrs == {"parse", "notokens", "uuid"}

VARIABLES
  \* ---- IndexingWorker and its broker / store ----
  jobs,        \* job id -> [kind, nwords]
  queue,       \* primary queue: sequence of messages [job, hdr]
  dlq,         \* dead-letter queue: set of messages
  wpc,         \* worker -> program location
  wmsg,        \* worker -> delivery being handled
  wbatch,      \* worker -> batch index -> "run" | "ok" | "err"
  werr,        \* worker -> error returned by processJob ("none" if nil)
  wsettle,     \* worker -> settlement about to be issued
  wpub,        \* worker -> <<>> or <<outcome, header>> of the Publish call
  postings,    \* inverted_index rows: set of <<word, doc>>
  documents,   \* documents rows: set of doc ids
  docRow,      \* doc id -> the columns of its documents row, as getDocument reads them
  processed,   \* history: job -> number of processJob invocations
  stats,       \* job -> the detached updateWordStats goroutine: "none" | "run" | "ok" | "failed"
  \* ---- AutoScalingConsumer ----
  activeWorkers, \* atomic counter
  idleWorkers,   \* atomic counter
  taskLen,       \* len(c.taskChan)
  taskClosed,    \* c.taskChan has been closed
  ctxDone,       \* c.ctx has been cancelled
  broker,        \* c.msgs: "flow" | "quiet" (nothing to deliver) | "closed"
  startPc,       \* Start: "spawn" | "done"
  dpc,           \* messageDispatcher: "off" | "select" | "send" | "done"
  spc,           \* autoScaler: "off" | "wait" | "spawn" | "done"
  sleft,         \* evaluateScaling: iterations left of the spawn loop
  pw,            \* pool worker slot -> "none" | "mark" | "select" | "busy" | "exit",
                 \* or "settled": in processMessage, after d.Ack or d.Nack
  ptimer,        \* pool worker slot -> idleTimer: "armed" | "fired"
  \* ---- Searcher and the posting store it reads ----
  index,          \* inverted_index: <<term, doc>> -> term_frequency (0: no row)
  qtext,          \* the query string: a sequence of characters
  query,          \* the query's terms, as the tokenizer returned them
  topK,           \* Search argument
  qpc,            \* Search: "start" | "collect" | "done"
  shState,        \* routed shard -> "run" | "ok" | "err" (its goroutine)
  resultsCh,      \* buffered channel of shardResult
  chClosed,       \* resultsCh has been closed
  shardResponses, \* responses collected so far, in arrival order
  qout,           \* what Search returned: [kind, res]
  \* ---- one evaluateScaling call, on its own ----
  evalQueueLen,   \* len(c.taskChan) as read
  evalActive,     \* activeWorkers as read
  evalMax,        \* c.maxWorkers
  evalSpawned,    \* spawnWorker calls made; -1 before the call
  \* ---- IndexingWorker.Start ----
  ictx,           \* the ctx passed to Start has been cancelled
  istart,         \* Start: "consume" | "wait" | "returned" | "failed"
  imsgs,          \* the delivery channel Consume returned: "open" | "closed"
  \* ---- one text through the indexer's and the coordinator's tokenizer ----
  tokText,        \* the text: a sequence of characters
  tokIdx,         \* indexing tokenizer: [done, tokens]
  tokQry,         \* search tokenizer: [done, tokens]
  tokBatchSize,   \* w.batchSize of the worker that indexes the text
  tokAgg,         \* buildInvertedIndex, last run: [done, words, numBatches, batches]
  tokTable,       \* inverted_index rows of the document: [rows, runs, complete]
  bmArgs,         \* arguments of one bm25Score call: [tf, docLen, totalDocLen, docCount, docFreq, totalDocs]
  bmOut,          \* its return value, in units of 1/10000: [done, score]
  pmIn,           \* one processMessage call: the delivery, what the call finds, the counters
  pmOut           \* the call made on the delivery and the counters afterwards

wvars == <<jobs, queue, dlq, wpc, wmsg, wbatch, werr, wsettle, wpub,
           postings, documents, docRow, processed, stats>>

pvars == <<activeWorkers, idleWorkers, taskLen, taskClosed, ctxDone, broker,
           startPc, dpc, spc, sleft, pw, ptimer>>

svars == <<index, qtext, query, topK, qpc, shState, resultsCh, chClosed, shardResponses, qout>>

evars == <<evalQueueLen, evalActive, evalMax, evalSpawned>>

tvars == <<ictx, istart, imsgs>>

kvars == <<tokText, tokIdx, tokQry, tokBatchSize, tokAgg, tokTable>>

bvars == <<bmArgs, bmOut>>

mvars == <<pmIn, pmOut>>

vars == <<wvars, pvars, svars, evars, tvars, kvars, bvars, mvars>>

\* the variables an IndexingWorker step leaves alone
wOther == <<pvars, svars, evars, tvars, kvars, bvars, mvars>>
\* the variables an AutoScalingConsumer step leaves alone
pOther == <<wvars, svars, evars, tvars, kvars, bvars, mvars>>
\* the variables a Searcher step leaves alone
sOther == <<wvars, pvars, evars, tvars, kvars, bvars, mvars>>

NoMsg == [job |-> 0, hdr |-> <<>>]

\* amqp.Delivery.Headers restricted to the key x-retry-count: <<>> when the
\* key is absent (or Headers is nil), <<n>> when it holds int32(n).
\* C-mutant: the type assertion never matches, so the count read is always 0.
getRetryCount_alwaysZero(hdr) == 0

getRetryCount(hdr) == IF hdr = <<>> THEN 0 ELSE hdr[1]

\* C-mutant: off-by-one in the retry test.
shouldRetry_le(retryCount) == retryCount <= maxRetries

\* worker: if retryCount < w.maxRetries
shouldRetry(retryCount) == retryCount < maxRetries

\* insertWordsBatched: numBatches := (len(words) + batchSize - 1) / batchSize
numBatches(n) == (n + BatchSize - 1) \div BatchSize

\* insertWordsBatched: words[i:end] of the k-th batch (words are 1..n)
batchWords(n, k) ==
  { x \in 1..n : (k - 1) * BatchSize < x /\ x <= k * BatchSize }

\* C-mutant: the error channel is not consulted.
batchesFailed_ignore(wb) == FALSE

\* insertWordsBatched: after wg.Wait(), the first error on errChan is returned
batchesFailed(wb) == \E k \in DOMAIN wb : wb[k] = "err"

\* C-mutant: the row is written although Exec reports an error.
storeDocument_always(docs, j, ok) == docs \cup {j}

\* storeDocumentMetadata: the documents table after the INSERT, which is
\* applied when Exec returns nil and not applied when it returns an error
storeDocument(docs, j, ok) == IF ok THEN docs \cup {j} ELSE docs

\* C-mutant: processJob waits for the goroutine and returns its error.
processJobErr_propagate(err, st) ==
  IF err = "none" /\ st = "failed" THEN "stats" ELSE err

\* processJob step 5 and the return: the error of updateWordStats is logged
\* inside the goroutine; the value returned does not depend on it
processJobErr(err, st) == err

\* C-mutant: json.Unmarshal accepts every body.
unmarshalOk_always(kind) == TRUE

\* worker: json.Unmarshal(msg.Body, &job) returns nil
unmarshalOk(kind) == kind # "malformed"

\* IndexingPayload.FilePath of a job: the object key "userID/filename" set
\* by the upload service, never empty
FilePath == "user/file"

\* C-mutant: the INSERT also binds file_path and total_terms.
documentRow_complete(job, wordCount) ==
  [title |-> "title", author |-> "author", created_at |-> "now",
   file_path |-> FilePath, total_terms |-> wordCount]

\* storeDocumentMetadata: INSERT INTO documents (doc_id, title, author,
\* created_at); a column the INSERT does not name stays null, which
\* getDocument scans as "" (text) and which total_terms, not a column of the
\* table, always is
documentRow(job, wordCount) ==
  [title |-> "title", author |-> "author", created_at |-> "now",
   file_path |-> "", total_terms |-> "null"]

\* a job that never reaches buildInvertedIndex needs no word count
JobShapes ==
  { [kind |-> "good", nwords |-> n] : n \in 1..MaxWords }
    \cup { [kind |-> "baduuid", nwords |-> MaxWords] }
    \cup { [kind |-> kd, nwords |-> 0] : kd \in JobKinds \ {"good", "baduuid"} }

WInit ==
  /\ jobs \in [Jobs -> JobShapes]
  \* Producer.PublishIndexingJob publishes without headers
  /\ queue = [j \in Jobs |-> [job |-> j, hdr |-> <<>>]]
  /\ dlq = {}
  /\ wpc = [w \in Workers |-> "recv"]
  /\ wmsg = [w \in Workers |-> NoMsg]
  /\ wbatch = [w \in Workers |-> <<>>]
  /\ werr = [w \in Workers |-> "none"]
  /\ wsettle = [w \in Workers |-> "none"]
  /\ wpub = [w \in Workers |-> <<>>]
  /\ postings = {}
  /\ documents = {}
  /\ docRow = <<>>
  /\ processed = [j \in Jobs |-> 0]
  /\ stats = [j \in Jobs |-> "none"]

\* worker: a delivery is received; json.Unmarshal of the body; then
\* processJob steps 1-2: downloadAndParse, Tokenize, and the start of
\* buildInvertedIndex (one goroutine per batch)
Receive(w) ==
  /\ wpc[w] = "recv"
  \* the workers run the same code: of those waiting on the channel the
  \* lowest-numbered one stands for whichever receives
  /\ \A v \in Workers : wpc[v] = "recv" => w <= v
  /\ imsgs = "open"
  /\ queue # <<>>
  /\ LET msg == Head(queue)
         j == msg.job
         kd == jobs[j].kind
         fail(e) == /\ werr' = [werr EXCEPT ![w] = e]
                    /\ wpc' = [wpc EXCEPT ![w] = "handle"]
                    /\ UNCHANGED wbatch
     IN
       /\ queue' = Tail(queue)
       /\ IF ~unmarshalOk(kd)
          THEN \* msg.Nack(false, false); continue
               /\ dlq' = dlq \cup {msg}
               /\ UNCHANGED <<wpc, wmsg, wbatch, werr, processed>>
          ELSE /\ wmsg' = [wmsg EXCEPT ![w] = msg]
               /\ processed' = [processed EXCEPT ![j] = @ + 1]
               /\ UNCHANGED dlq
               /\ \/ \* GetObject / ReadAll fails: always for a missing object,
                     \* and possibly (transient I/O) for any other
                     fail("download")
                  \/ /\ kd = "unparseable"
                     /\ fail("parse")
                  \/ /\ kd = "empty"
                     /\ fail("notokens")
                  \/ /\ kd \in {"good", "baduuid"}
                     /\ wbatch' = [wbatch EXCEPT ![w] =
                                     [k \in 1..numBatches(jobs[j].nwords) |-> "run"]]
                     /\ wpc' = [wpc EXCEPT ![w] = "batches"]
                     /\ UNCHANGED werr
  /\ UNCHANGED <<jobs, wsettle, wpub, postings, documents, docRow, stats>>
  /\ UNCHANGED wOther

\* insertBatch, run by the goroutine of batch k
InsertBatch(w, k) ==
  /\ wpc[w] = "batches"
  /\ k \in DOMAIN wbatch[w]
  /\ wbatch[w][k] = "run"
  /\ LET j == wmsg[w].job IN
       \/ \* gocql.ParseUUID(docID) fails
          /\ jobs[j].kind = "baduuid"
          /\ wbatch' = [wbatch EXCEPT ![w][k] = "err"]
          /\ UNCHANGED postings
       \/ \* ExecuteBatch fails
          /\ jobs[j].kind # "baduuid"
          /\ wbatch' = [wbatch EXCEPT ![w][k] = "err"]
          /\ UNCHANGED postings
       \/ \* ExecuteBatch succeeds: the logged batch is applied atomically
          /\ jobs[j].kind # "baduuid"
          /\ wbatch' = [wbatch EXCEPT ![w][k] = "ok"]
          /\ postings' = postings \cup { <<x, j>> : x \in batchWords(jobs[j].nwords, k) }
  /\ UNCHANGED <<jobs, queue, dlq, wpc, wmsg, werr, wsettle, wpub, documents, docRow, processed, stats>>
  /\ UNCHANGED wOther

\* insertWordsBatched after wg.Wait(): the error check; then, back in
\* processJob, step 4: storeDocumentMetadata, which is reached only when
\* buildInvertedIndex returned nil
JoinAndStore(w) ==
  /\ wpc[w] = "batches"
  /\ \A k \in DOMAIN wbatch[w] : wbatch[w][k] # "run"
  /\ LET j == wmsg[w].job IN
       IF batchesFailed(wbatch[w])
       THEN /\ werr' = [werr EXCEPT ![w] =
                          IF jobs[j].kind = "baduuid" THEN "uuid" ELSE "batch"]
            /\ UNCHANGED <<documents, docRow, stats>>
       ELSE \/ \* gocql.ParseUUID(job.Payload.DocID) fails
               /\ jobs[j].kind = "baduuid"
               /\ werr' = [werr EXCEPT ![w] = "uuid"]
               /\ UNCHANGED <<documents, docRow, stats>>
            \/ \* the INSERT INTO documents fails
               /\ jobs[j].kind # "baduuid"
               /\ werr' = [werr EXCEPT ![w] = "metadata"]
               /\ documents' = storeDocument(documents, j, FALSE)
               /\ UNCHANGED docRow
               /\ UNCHANGED stats
            \/ \* the INSERT INTO documents succeeds; step 5 starts the
               \* updateWordStats goroutine and processJob returns nil
               \* without waiting for it
               /\ jobs[j].kind # "baduuid"
               /\ documents' = storeDocument(documents, j, TRUE)
               /\ docRow' = [d \in DOMAIN docRow \cup {j} |->
                               IF d = j THEN documentRow(jobs[j], jobs[j].nwords)
                               ELSE docRow[d]]
               /\ stats' = [stats EXCEPT ![j] = "run"]
               /\ werr' = [werr EXCEPT ![w] = processJobErr("none", stats'[j])]
  /\ wpc' = [wpc EXCEPT ![w] = "handle"]
  /\ UNCHANGED <<jobs, queue, dlq, wmsg, wbatch, wsettle, wpub, postings, processed>>
  /\ UNCHANGED wOther

\* the settlement of a failed delivery once consumer.Publish has returned:
\* acked when the copy was published, nacked without requeue otherwise
afterPublish_ackAlways(pubErr) == "ack"

afterPublish(pubErr) == IF pubErr = "ok" THEN "ack" ELSE "nack"

\* worker, after processJob returned: success -> Ack; failure -> retry count
\* check and republish with the incremented header, or Nack
HandleResult(w) ==
  /\ wpc[w] = "handle"
  /\ LET msg == wmsg[w]
         retryCount == getRetryCount(msg.hdr)
     IN
       IF processJobErr(werr[w], stats[msg.job]) = "none"
       THEN /\ wsettle' = [wsettle EXCEPT ![w] = "ack"]
            /\ UNCHANGED <<queue, wpub>>
       ELSE IF shouldRetry(retryCount)
       THEN \/ \* consumer.Publish succeeds
               /\ queue' = Append(queue, [job |-> msg.job, hdr |-> <<retryCount + 1>>])
               /\ wpub' = [wpub EXCEPT ![w] = <<"ok", retryCount + 1>>]
               /\ wsettle' = [wsettle EXCEPT ![w] = afterPublish("ok")]
            \/ \* consumer.Publish fails
               /\ wpub' = [wpub EXCEPT ![w] = <<"fail", retryCount + 1>>]
               /\ wsettle' = [wsettle EXCEPT ![w] = afterPublish("fail")]
               /\ UNCHANGED queue
       ELSE /\ wsettle' = [wsettle EXCEPT ![w] = "nack"]
            /\ UNCHANGED <<queue, wpub>>
  /\ wpc' = [wpc EXCEPT ![w] = "settle"]
  /\ UNCHANGED <<jobs, dlq, wmsg, wbatch, werr, postings, documents, docRow, processed, stats>>
  /\ UNCHANGED wOther

\* msg.Ack(false) or msg.Nack(false, false): the broker dead-letters a
\* delivery nacked without requeue
Settle(w) ==
  /\ wpc[w] = "settle"
  /\ dlq' = IF wsettle[w] = "nack" THEN dlq \cup {wmsg[w]} ELSE dlq
  /\ wpc' = [wpc EXCEPT ![w] = "recv"]
  /\ wmsg' = [wmsg EXCEPT ![w] = NoMsg]
  /\ wbatch' = [wbatch EXCEPT ![w] = <<>>]
  /\ werr' = [werr EXCEPT ![w] = "none"]
  /\ wsettle' = [wsettle EXCEPT ![w] = "none"]
  /\ wpub' = [wpub EXCEPT ![w] = <<>>]
  /\ UNCHANGED <<jobs, queue, postings, documents, docRow, processed, stats>>
  /\ UNCHANGED wOther

\* the goroutine of processJob step 5: updateWordStats returns nil or an
\* error, which is logged
UpdateWordStats(j) ==
  /\ stats[j] = "run"
  /\ \E outcome \in {"ok", "failed"} : stats' = [stats EXCEPT ![j] = outcome]
  /\ UNCHANGED <<jobs, queue, dlq, wpc, wmsg, wbatch, werr, wsettle, wpub,
                 postings, documents, docRow, processed>>
  /\ UNCHANGED wOther

WNext ==
  \/ \E j \in Jobs : UpdateWordStats(j)
  \/ \E w \in Workers :
    \/ Receive(w)
    \/ \E k \in 1..MaxWords : InsertBatch(w, k)
    \/ JoinAndStore(w)
    \/ HandleResult(w)
    \/ Settle(w)


(***************************************************************************)
(* AutoScalingConsumer                                                     *)
(***************************************************************************)
\* pool size limits (MIN_WORKERS / MAX_WORKERS, scaled down)
minWorkers == 1
maxWorkers == 2
\* capacity of c.taskChan (make(chan amqp.Delivery, 100), scaled down)
TaskChanCap == 11
\* how far the model lets the idle counter run ahead of the waiting workers
IdleLeakCap == 1

\* NewAutoScalingConsumer: scaleUpThreshold: 10
scaleUpThreshold == 10
\* evaluateScaling: needed := queueLen / 5
perWorker == 5

min(a, b) == IF a < b THEN a ELSE b

\* evaluateScaling: needed
needed(queueLen) == IF queueLen \div perWorker < 1 THEN 1 ELSE queueLen \div perWorker

\* C-mutant: one worker per started group of perWorker messages.
spawnCount_roundUp(queueLen, active, maxW) ==
  IF queueLen > scaleUpThreshold /\ active < maxW
  THEN min((queueLen + perWorker - 1) \div perWorker, maxW - active)
  ELSE 0

\* evaluateScaling: number of spawnWorker calls of the SCALE UP branch, for
\* a pool configured with c.maxWorkers = maxW
spawnCount(queueLen, active, maxW) ==
  IF queueLen > scaleUpThreshold /\ active < maxW
  THEN min(needed(queueLen), maxW - active)
  ELSE 0

\* C-mutant: the spawn count is not capped by the remaining capacity.
toSpawn_uncapped(queueLen, active) ==
  IF queueLen > scaleUpThreshold /\ active < maxWorkers
  THEN needed(queueLen)
  ELSE 0

\* evaluateScaling in the pool under examination
toSpawn(queueLen, active) == spawnCount(queueLen, active, maxWorkers)

\* worker, idle-timer case: if int(active) > c.minWorkers { return }
idleExit(active) == active > minWorkers

\* slots for worker goroutines; the headroom is used only by a pool that
\* spawns past maxWorkers
Slots == 1..(maxWorkers + TaskChanCap \div perWorker)

FreeSlot == CHOOSE w \in Slots : pw[w] = "none" /\ \A v \in Slots : pw[v] = "none" => w <= v

\* idle count in excess of the workers waiting in the select
IdleLeak == idleWorkers - Cardinality({ w \in Slots : pw[w] = "select" })

PInit ==
  /\ activeWorkers = 0
  /\ idleWorkers = 0
  /\ taskLen = 0
  /\ taskClosed = FALSE
  /\ ctxDone = FALSE
  /\ broker = "flow"
  /\ startPc = "spawn"
  /\ dpc = "off"
  /\ spc = "off"
  /\ sleft = 0
  /\ pw = [w \in Slots |-> "none"]
  /\ ptimer = [w \in Slots |-> "armed"]

\* the pool, not started: its state while another component is examined
PQuiet == PInit

\* spawnWorker: atomic.AddInt32(&c.activeWorkers, 1); go c.worker(id).  The
\* new goroutine's idleTimer is created armed.
SpawnEffect ==
  /\ activeWorkers' = activeWorkers + 1
  /\ pw' = [pw EXCEPT ![FreeSlot] = "mark"]
  /\ ptimer' = [ptimer EXCEPT ![FreeSlot] = "armed"]

\* Start: for i := 0; i < c.minWorkers; i++ { c.spawnWorker() }
StartSpawn ==
  /\ startPc = "spawn"
  /\ activeWorkers < minWorkers
  /\ SpawnEffect
  /\ UNCHANGED <<idleWorkers, taskLen, taskClosed, ctxDone, broker, startPc, dpc, spc, sleft>>
  /\ UNCHANGED pOther

\* Start: go c.messageDispatcher(); go c.autoScaler()
StartGo ==
  /\ startPc = "spawn"
  /\ activeWorkers >= minWorkers
  /\ startPc' = "done"
  /\ dpc' = "select"
  /\ spc' = "wait"
  /\ UNCHANGED <<activeWorkers, idleWorkers, taskLen, taskClosed, ctxDone, broker, sleft, pw, ptimer>>
  /\ UNCHANGED pOther

\* main returns when Shutdown has returned and the process ends: no
\* goroutine takes a step after that
running == startPc # "stopped"

\* the broker runs out of deliveries, gets new ones, or closes c.msgs
BrokerChange ==
  /\ running
  /\ startPc # "spawn"
  /\ broker # "closed"
  /\ broker' \in {"flow", "quiet", "closed"} \ {broker}
  /\ UNCHANGED <<activeWorkers, idleWorkers, taskLen, taskClosed, ctxDone, startPc, dpc, spc, sleft, pw, ptimer>>
  /\ UNCHANGED pOther

\* messageDispatcher, outer select: case d, ok := <-c.msgs with ok
DispatchRecv ==
  /\ running
  /\ dpc = "select"
  /\ broker = "flow"
  /\ dpc' = "send"
  /\ UNCHANGED <<activeWorkers, idleWorkers, taskLen, taskClosed, ctxDone, broker, startPc, spc, sleft, pw, ptimer>>
  /\ UNCHANGED pOther

\* messageDispatcher, outer select: <-c.ctx.Done(), or c.msgs closed:
\* close(c.taskChan); return
DispatchClose ==
  /\ running
  /\ dpc = "select"
  /\ ctxDone \/ broker = "closed"
  /\ taskClosed' = TRUE
  /\ dpc' = "done"
  /\ UNCHANGED <<activeWorkers, idleWorkers, taskLen, ctxDone, broker, startPc, spc, sleft, pw, ptimer>>
  /\ UNCHANGED pOther

\* messageDispatcher, inner select: case c.taskChan <- d
DispatchSend ==
  /\ running
  /\ dpc = "send"
  /\ taskLen < TaskChanCap
  /\ taskLen' = taskLen + 1
  /\ dpc' = "select"
  /\ UNCHANGED <<activeWorkers, idleWorkers, taskClosed, ctxDone, broker, startPc, spc, sleft, pw, ptimer>>
  /\ UNCHANGED pOther

\* messageDispatcher, inner select: case <-c.ctx.Done(): return
DispatchAbandon ==
  /\ running
  /\ dpc = "send"
  /\ ctxDone
  /\ dpc' = "done"
  /\ UNCHANGED <<activeWorkers, idleWorkers, taskLen, taskClosed, ctxDone, broker, startPc, spc, sleft, pw, ptimer>>
  /\ UNCHANGED pOther

\* autoScaler: case <-ticker.C: evaluateScaling, up to the spawn loop
\* (scalingMutex is held while spc = "spawn")
EvaluateScaling ==
  /\ running
  /\ spc = "wait"
  /\ sleft' = toSpawn(taskLen, activeWorkers)
  /\ spc' = "spawn"
  /\ UNCHANGED <<activeWorkers, idleWorkers, taskLen, taskClosed, ctxDone, broker, startPc, dpc, pw, ptimer>>
  /\ UNCHANGED pOther

\* evaluateScaling: one iteration of for i := 0; i < toSpawn; i++
ScaleSpawn ==
  /\ running
  /\ spc = "spawn"
  /\ sleft > 0
  /\ SpawnEffect
  /\ sleft' = sleft - 1
  /\ UNCHANGED <<idleWorkers, taskLen, taskClosed, ctxDone, broker, startPc, dpc, spc>>
  /\ UNCHANGED pOther

\* C-mutant: the SCALE DOWN branch takes toRemove workers off the count.
scaleDown_remove(active, idle) ==
  IF idle > minWorkers /\ active > minWorkers
  THEN active - min(idle - minWorkers, active - minWorkers)
  ELSE active

\* evaluateScaling, SCALE DOWN: the active count the branch leaves behind; it
\* computes toRemove and logs
scaleDown(active, idle) == active

\* evaluateScaling: the SCALE DOWN branch only logs; the mutex is released
ScaleReturn ==
  /\ running
  /\ spc = "spawn"
  /\ sleft = 0
  /\ spc' = "wait"
  /\ activeWorkers' = scaleDown(activeWorkers, idleWorkers)
  /\ UNCHANGED <<idleWorkers, taskLen, taskClosed, ctxDone, broker, startPc, dpc, sleft, pw, ptimer>>
  /\ UNCHANGED pOther

\* autoScaler: case <-c.ctx.Done(): return
ScalerStop ==
  /\ running
  /\ spc = "wait"
  /\ ctxDone
  /\ spc' = "done"
  /\ UNCHANGED <<activeWorkers, idleWorkers, taskLen, taskClosed, ctxDone, broker, startPc, dpc, sleft, pw, ptimer>>
  /\ UNCHANGED pOther

\* the worker goroutines that have not yet called workerWg.Done
liveWorkers(p) == Cardinality({ w \in Slots : p[w] # "none" })

\* C-mutant: the wait is never released.
wgWait_never(pc, live) == pc

\* c.workerWg.Wait(): the caller of Shutdown is released when the counter is
\* zero
wgWait(pc, live) == IF pc = "wait" /\ live = 0 THEN "stopped" ELSE pc

\* Shutdown: c.cancel(), then c.workerWg.Wait(), which returns at once when
\* no worker is left; the channel and the connection are closed after it
Shutdown ==
  /\ startPc = "done"
  /\ ~ctxDone
  /\ ctxDone' = TRUE
  /\ startPc' = wgWait("wait", liveWorkers(pw))
  /\ UNCHANGED <<activeWorkers, idleWorkers, taskLen, taskClosed, broker, dpc, spc, sleft, pw, ptimer>>
  /\ UNCHANGED pOther

\* worker, top of the loop: atomic.AddInt32(&c.idleWorkers, 1)
WorkerMarkIdle(w) ==
  /\ running
  /\ pw[w] = "mark"
  /\ idleWorkers' = idleWorkers + 1
  /\ pw' = [pw EXCEPT ![w] = "select"]
  /\ UNCHANGED <<activeWorkers, taskLen, taskClosed, ctxDone, broker, startPc, dpc, spc, sleft, ptimer>>
  /\ UNCHANGED pOther

\* worker: case <-c.ctx.Done(): idle--, return
WorkerCtxDone(w) ==
  /\ running
  /\ pw[w] = "select"
  /\ ctxDone
  /\ idleWorkers' = idleWorkers - 1
  /\ pw' = [pw EXCEPT ![w] = "exit"]
  /\ UNCHANGED <<activeWorkers, taskLen, taskClosed, ctxDone, broker, startPc, dpc, spc, sleft, ptimer>>
  /\ UNCHANGED pOther

\* worker: case d, ok := <-c.taskChan with ok: idle--, the timer is stopped,
\* drained and reset, then processMessage runs
WorkerTake(w) ==
  /\ running
  /\ pw[w] = "select"
  /\ taskLen > 0
  /\ taskLen' = taskLen - 1
  /\ idleWorkers' = idleWorkers - 1
  /\ ptimer' = [ptimer EXCEPT ![w] = "armed"]
  /\ pw' = [pw EXCEPT ![w] = "busy"]
  /\ UNCHANGED <<activeWorkers, taskClosed, ctxDone, broker, startPc, dpc, spc, sleft>>
  /\ UNCHANGED pOther

\* worker: case d, ok := <-c.taskChan with !ok: idle--, return
WorkerChanClosed(w) ==
  /\ running
  /\ pw[w] = "select"
  /\ taskClosed
  /\ taskLen = 0
  /\ idleWorkers' = idleWorkers - 1
  /\ pw' = [pw EXCEPT ![w] = "exit"]
  /\ UNCHANGED <<activeWorkers, taskLen, taskClosed, ctxDone, broker, startPc, dpc, spc, sleft, ptimer>>
  /\ UNCHANGED pOther

\* worker: case <-idleTimer.C: the active count is loaded; above minWorkers
\* the worker leaves (idle--, return), otherwise it resets the timer and
\* goes round the loop
WorkerIdleTimeout(w) ==
  /\ running
  /\ pw[w] = "select"
  /\ ptimer[w] = "fired"
  /\ idleExit(activeWorkers) \/ IdleLeak < IdleLeakCap
  /\ IF idleExit(activeWorkers)
     THEN /\ idleWorkers' = idleWorkers - 1
          /\ pw' = [pw EXCEPT ![w] = "exit"]
          /\ UNCHANGED ptimer
     ELSE /\ ptimer' = [ptimer EXCEPT ![w] = "armed"]
          /\ pw' = [pw EXCEPT ![w] = "mark"]
          /\ UNCHANGED idleWorkers
  /\ UNCHANGED <<activeWorkers, taskLen, taskClosed, ctxDone, broker, startPc, dpc, spc, sleft>>
  /\ UNCHANGED pOther

\* what processMessage finds: the body is not a PDFMessage, the download or
\* the extraction fails, or the text is extracted
Outcomes == {"parse", "download", "done"}

\* C-mutant: the error paths return without settling the delivery.
settle_onlyAck(outcome) ==
  CASE outcome = "parse" -> "unsettled"
    [] outcome = "download" -> "unsettled"
    [] outcome = "done" -> "settled"

\* processMessage: where the worker is after d.Nack(false, false),
\* d.Nack(false, true) or d.Ack(false)
settle(outcome) ==
  CASE outcome = "parse" -> "settled"
    [] outcome = "download" -> "settled"
    [] outcome = "done" -> "settled"

\* C-mutant: a failed download is nacked without requeue.
processCall_deadLetter(outcome) ==
  CASE outcome = "parse" -> [call |-> "nack", requeue |-> FALSE]
    [] outcome = "download" -> [call |-> "nack", requeue |-> FALSE]
    [] outcome = "done" -> [call |-> "ack", requeue |-> FALSE]

\* processMessage: the call it makes on the delivery: d.Nack(false, false),
\* d.Nack(false, true) or d.Ack(false)
processCall(outcome) ==
  CASE outcome = "parse" -> [call |-> "nack", requeue |-> FALSE]
    [] outcome = "download" -> [call |-> "nack", requeue |-> TRUE]
    [] outcome = "done" -> [call |-> "ack", requeue |-> FALSE]

\* processMessage up to and including the call that settles the delivery; a
\* delivery nacked with requeue is back in the broker's queue
WorkerSettle(w) ==
  /\ running
  /\ pw[w] = "busy"
  /\ \E outcome \in Outcomes :
       /\ pw' = [pw EXCEPT ![w] = settle(outcome)]
       /\ broker' = IF processCall(outcome).requeue /\ broker = "quiet" THEN "flow" ELSE broker
  /\ UNCHANGED <<activeWorkers, idleWorkers, taskLen, taskClosed, ctxDone, startPc, dpc, spc, sleft, ptimer>>
  /\ UNCHANGED pOther

\* processMessage returns (the delivery has been acked or nacked)
WorkerProcessed(w) ==
  /\ running
  /\ pw[w] \in {"settled", "unsettled"}
  /\ pw' = [pw EXCEPT ![w] = "mark"]
  /\ UNCHANGED <<activeWorkers, idleWorkers, taskLen, taskClosed, ctxDone, broker, startPc, dpc, spc, sleft, ptimer>>
  /\ UNCHANGED pOther

\* C-mutant: a worker leaves without taking itself off the count.
workerExited_noDecrement(active) == active

\* worker: defer atomic.AddInt32(&c.activeWorkers, -1), run on every return
workerExited(active) == active - 1

\* worker, deferred calls: idleTimer.Stop(); activeWorkers--; workerWg.Done(),
\* which releases a Shutdown waiting in workerWg.Wait when it was the last
WorkerExit(w) ==
  /\ running
  /\ pw[w] = "exit"
  /\ activeWorkers' = workerExited(activeWorkers)
  /\ pw' = [pw EXCEPT ![w] = "none"]
  /\ ptimer' = [ptimer EXCEPT ![w] = "armed"]
  /\ startPc' = wgWait(startPc, liveWorkers(pw'))
  /\ UNCHANGED <<idleWorkers, taskLen, taskClosed, ctxDone, broker, dpc, spc, sleft>>
  /\ UNCHANGED pOther

\* scaleDownIdle elapses since the worker's timer was last (re)set
TimerExpires(w) ==
  /\ running
  /\ pw[w] \in {"mark", "select", "busy", "settled"}
  /\ ptimer[w] = "armed"
  /\ ptimer' = [ptimer EXCEPT ![w] = "fired"]
  /\ UNCHANGED <<activeWorkers, idleWorkers, taskLen, taskClosed, ctxDone, broker, startPc, dpc, spc, sleft, pw>>
  /\ UNCHANGED pOther

\* ---- processMessage as a function of the delivery ----

\* largest x-retry-count header and largest counter value of a call
MaxHeaderRetry == 4
MaxCounter == 1

NoCall == [done |-> FALSE, call |-> "none", requeue |-> FALSE,
           totalProcessed |-> 0, totalFailed |-> 0]

NoDelivery == [outcome |-> "done", retryCount |-> 0, redelivered |-> FALSE,
               totalProcessed |-> 0, totalFailed |-> 0]

\* a delivery (its x-retry-count header and Redelivered flag), what
\* processMessage will find, and the counters before the call
MInitProc ==
  /\ pmIn \in [outcome : Outcomes, retryCount : 0..MaxHeaderRetry, redelivered : BOOLEAN,
               totalProcessed : 0..MaxCounter, totalFailed : 0..MaxCounter]
  /\ pmOut = NoCall

\* no call under examination
MQuiet ==
  /\ pmIn = NoDelivery
  /\ pmOut = NoCall

\* processMessage: the call on the delivery and the counter it bumps;
\* neither d.Headers nor d.Redelivered is read
ProcessOnce ==
  /\ ~pmOut.done
  /\ pmOut' = [done |-> TRUE,
               call |-> processCall(pmIn.outcome).call,
               requeue |-> processCall(pmIn.outcome).requeue,
               totalProcessed |-> pmIn.totalProcessed + (IF pmIn.outcome = "done" THEN 1 ELSE 0),
               totalFailed |-> pmIn.totalFailed + (IF pmIn.outcome = "done" THEN 0 ELSE 1)]
  /\ UNCHANGED <<pmIn, wvars, pvars, svars, evars, tvars, kvars, bvars>>

MNextProc == ProcessOnce

PNext ==
  \/ StartSpawn
  \/ StartGo
  \/ BrokerChange
  \/ DispatchRecv
  \/ DispatchClose
  \/ DispatchSend
  \/ DispatchAbandon
  \/ EvaluateScaling
  \/ ScaleSpawn
  \/ ScaleReturn
  \/ ScalerStop
  \/ Shutdown
  \/ \E w \in Slots :
       \/ WorkerMarkIdle(w)
       \/ WorkerCtxDone(w)
       \/ WorkerTake(w)
       \/ WorkerChanClosed(w)
       \/ WorkerIdleTimeout(w)
       \/ WorkerSettle(w)
       \/ WorkerProcessed(w)
       \/ WorkerExit(w)
       \/ TimerExpires(w)

(***************************************************************************)
(* The two tokenizers: services/indexing/internal/tokenizer (used by the   *)
(* IndexingWorker) and services/search/internal/tokenizer (used by         *)
(* Searcher.Search).  A text and a word are sequences of characters.       *)
(***************************************************************************)
\* largest number of words of a text
MaxTextWords == 3

Letters ==
  { "a", "b", "c", "d", "e", "f", "g", "h", "i", "j", "k", "l", "m",
    "n", "o", "p", "q", "r", "s", "t", "u", "v", "w", "x", "y", "z" }

Digits == { "0", "1", "2", "3", "4", "5", "6", "7", "8", "9" }

\* NewTokenizer: stopWords (the same table in both packages)
stopWords ==
  {
      <<"a">>, <<"a", "n">>, <<"a", "n", "d">>, <<"a", "r", "e">>,
      <<"a", "s">>, <<"a", "t">>, <<"b", "e">>, <<"b", "y">>,
      <<"f", "o", "r">>, <<"f", "r", "o", "m">>, <<"h", "a", "s">>, <<"h", "e">>,
      <<"i", "n">>, <<"i", "s">>, <<"i", "t">>, <<"i", "t", "s">>,
      <<"o", "f">>, <<"o", "n">>, <<"t", "h", "a", "t">>, <<"t", "h", "e">>,
      <<"t", "o">>, <<"w", "a", "s">>, <<"w", "i", "l", "l">>, <<"w", "i", "t", "h">> }

\* strings.ToLower, on the characters the texts use
ToLower(c) ==
  CASE c = "G" -> "g"
    [] c = "R" -> "r"
    [] OTHER -> c

\* indexing Tokenize: the characters [^a-z0-9\s]+ does not match
keptByIndexer(c) == c \in Letters \cup Digits \cup {" "}

\* search Tokenize: the characters [^a-z0-9\s\-']+ does not match
keptBySearch(c) == c \in Letters \cup Digits \cup {" ", "-", "'"}

\* reg.ReplaceAllString(strings.ToLower(text), " ") with the indexer's
\* pattern: every maximal run of other characters becomes one space
RECURSIVE cleanIndexer(_, _)
cleanIndexer(text, i) ==
  IF i > Len(text) THEN <<>>
  ELSE IF keptByIndexer(ToLower(text[i])) THEN <<ToLower(text[i])>> \o cleanIndexer(text, i + 1)
  ELSE IF i > 1 /\ ~keptByIndexer(ToLower(text[i - 1])) THEN cleanIndexer(text, i + 1)
  ELSE <<" ">> \o cleanIndexer(text, i + 1)

\* the same with the search tokenizer's pattern
RECURSIVE cleanSearch(_, _)
cleanSearch(text, i) ==
  IF i > Len(text) THEN <<>>
  ELSE IF keptBySearch(ToLower(text[i])) THEN <<ToLower(text[i])>> \o cleanSearch(text, i + 1)
  ELSE IF i > 1 /\ ~keptBySearch(ToLower(text[i - 1])) THEN cleanSearch(text, i + 1)
  ELSE <<" ">> \o cleanSearch(text, i + 1)

\* strings.Fields: the maximal runs of non-space characters; cur is the
\* word being read
RECURSIVE Fields(_, _, _)
Fields(text, i, cur) ==
  IF i > Len(text) THEN (IF cur = <<>> THEN <<>> ELSE <<cur>>)
  ELSE IF text[i] = " "
       THEN (IF cur = <<>> THEN <<>> ELSE <<cur>>) \o Fields(text, i + 1, <<>>)
       ELSE Fields(text, i + 1, Append(cur, text[i]))

\* strings.HasSuffix
HasSuffix(word, suf) ==
  /\ Len(word) >= Len(suf)
  /\ SubSeq(word, Len(word) - Len(suf) + 1, Len(word)) = suf

\* word[:len(word)-n]
dropLast(word, n) == SubSeq(word, 1, Len(word) - n)

\* strings.ContainsAny(stem, "aeiou")
hasVowel(word) == \E i \in 1..Len(word) : word[i] \in {"a", "e", "i", "o", "u"}

\* strings.Trim(word, "-'")
RECURSIVE trimLeft(_)
trimLeft(word) ==
  IF word # <<>> /\ Head(word) \in {"-", "'"} THEN trimLeft(Tail(word)) ELSE word

RECURSIVE trimRight(_)
trimRight(word) ==
  IF word # <<>> /\ word[Len(word)] \in {"-", "'"} THEN trimRight(dropLast(word, 1)) ELSE word

Trim(word) == trimRight(trimLeft(word))

\* C-mutant: no suffix is removed.
stem_keep(word) == word

\* indexing tokenizer: stem
stem(word) ==
  IF HasSuffix(word, <<"i", "e", "s">>) /\ Len(word) > 4 THEN Append(dropLast(word, 3), "y")
  ELSE IF HasSuffix(word, <<"e", "s">>) /\ Len(word) > 3 THEN dropLast(word, 2)
  ELSE IF HasSuffix(word, <<"s">>) /\ Len(word) > 2 THEN dropLast(word, 1)
  ELSE IF HasSuffix(word, <<"i", "n", "g">>) /\ Len(word) > 5 THEN dropLast(word, 3)
  ELSE IF HasSuffix(word, <<"e", "d">>) /\ Len(word) > 4 THEN dropLast(word, 2)
  ELSE word

\* search tokenizer: stemConservative
stemConservative(word) ==
  IF Len(word) > 4 /\ HasSuffix(word, <<"i", "e", "s">>) THEN Append(dropLast(word, 3), "y")
  ELSE IF /\ Len(word) > 3 /\ HasSuffix(word, <<"e", "s">>)
          /\ ~HasSuffix(word, <<"i", "e", "s">>) /\ ~HasSuffix(word, <<"o", "e", "s">>)
          /\ \/ word[Len(word) - 2] \in {"s", "x", "z"}
             \/ HasSuffix(SubSeq(word, Len(word) - 2, Len(word)), <<"c", "h">>)
             \/ HasSuffix(SubSeq(word, Len(word) - 2, Len(word)), <<"s", "h">>)
       THEN dropLast(word, 2)
  ELSE IF /\ Len(word) > 3 /\ HasSuffix(word, <<"s">>)
          /\ ~HasSuffix(word, <<"s", "s">>)
          /\ ~HasSuffix(word, <<"u", "s">>)
          /\ ~HasSuffix(word, <<"i", "s">>)
       THEN dropLast(word, 1)
  ELSE IF Len(word) > 5 /\ HasSuffix(word, <<"i", "n", "g">>) /\ hasVowel(dropLast(word, 3))
       THEN dropLast(word, 3)
  ELSE IF Len(word) > 4 /\ HasSuffix(word, <<"e", "d">>) /\ hasVowel(dropLast(word, 2))
       THEN dropLast(word, 2)
  ELSE word

\* indexing Tokenize: the loop over words; pos is the next Position
RECURSIVE indexTokens(_, _, _)
indexTokens(words, i, pos) ==
  IF i > Len(words) THEN <<>>
  ELSE IF Len(words[i]) < 2 \/ words[i] \in stopWords
       THEN indexTokens(words, i + 1, pos)
       ELSE <<[Word |-> stem(words[i]), Position |-> pos]>>
              \o indexTokens(words, i + 1, pos + 1)

\* search Tokenize: the loop over words
RECURSIVE searchTokens(_, _, _)
searchTokens(words, i, pos) ==
  IF i > Len(words) THEN <<>>
  ELSE IF Len(words[i]) < 3 \/ words[i] \in stopWords \/ Trim(words[i]) = <<>>
       THEN searchTokens(words, i + 1, pos)
       ELSE <<[Word |-> stemConservative(Trim(words[i])), Position |-> pos]>>
              \o searchTokens(words, i + 1, pos + 1)

\* services/indexing/internal/tokenizer: Tokenize
TokenizeIndexer(text) == indexTokens(Fields(cleanIndexer(text, 1), 1, <<>>), 1, 0)

\* services/search/internal/tokenizer: Tokenize
TokenizeSearch(text) == searchTokens(Fields(cleanSearch(text, 1), 1, <<>>), 1, 0)

\* the words the texts are made of
Vocabulary ==
  { <<"G", "o">>,
    <<"t", "h", "e">>,
    <<"m", "a", "k", "e", "s">>,
    <<"g", "l", "a", "s", "s">>,
    <<"c", "i", "t", "i", "e", "s">>,
    <<"e", "-", "m", "a", "i", "l">> }

\* the words of a text joined by single spaces
RECURSIVE Join(_, _)
Join(ws, i) ==
  IF i > Len(ws) THEN <<>>
  ELSE IF i = Len(ws) THEN ws[i]
  ELSE ws[i] \o <<" ">> \o Join(ws, i + 1)

\* the text "Running distributed systems is fun."
ExampleText ==
  <<"R", "u", "n", "n", "i", "n", "g", " ", "d", "i", "s", "t", "r", "i", "b", "u", "t", "e",
    "d", " ", "s", "y", "s", "t", "e", "m", "s", " ", "i", "s", " ", "f", "u", "n", ".">>

Texts ==
  { Join(ws, 1) : ws \in UNION { [1..n -> Vocabulary] : n \in 0..MaxTextWords } }
    \cup {ExampleText}

NotRun == [done |-> FALSE, tokens |-> <<>>]

\* largest batchSize of a worker that indexes a text
MaxBatchSize == 2

\* buildInvertedIndex: one step of the loop over tokens
addToken_noCount(wordMap, token) ==
  IF token.Word \in DOMAIN wordMap
  THEN [wordMap EXCEPT ![token.Word] =
          [Word |-> @.Word,
           Positions |-> Append(@.Positions, token.Position),
           Frequency |-> @.Frequency]]
  ELSE [x \in DOMAIN wordMap \cup {token.Word} |->
          IF x = token.Word
          THEN [Word |-> token.Word, Positions |-> <<token.Position>>, Frequency |-> 1]
          ELSE wordMap[x]]

addToken(wordMap, token) ==
  IF token.Word \in DOMAIN wordMap
  THEN [wordMap EXCEPT ![token.Word] =
          [Word |-> @.Word,
           Positions |-> Append(@.Positions, token.Position),
           Frequency |-> @.Frequency + 1]]
  ELSE [x \in DOMAIN wordMap \cup {token.Word} |->
          IF x = token.Word
          THEN [Word |-> token.Word, Positions |-> <<token.Position>>, Frequency |-> 1]
          ELSE wordMap[x]]

\* buildInvertedIndex: wordMap after the tokens from the i-th on
RECURSIVE groupTokens(_, _, _)
groupTokens(wordMap, tokens, i) ==
  IF i > Len(tokens) THEN wordMap
  ELSE groupTokens(addToken(wordMap, tokens[i]), tokens, i + 1)

\* buildInvertedIndex: the slices `for _, data := range wordMap` can build;
\* the iteration order of a map is not specified
wordSlices(wordMap) ==
  LET n == Cardinality(DOMAIN wordMap)
      orders == { o \in [1..n -> DOMAIN wordMap] :
                    \A a, b \in 1..n : o[a] = o[b] => a = b }
  IN  { [k \in 1..n |-> wordMap[o[k]]] : o \in orders }

\* insertWordsBatched: i += w.batchSize
nextStart_overlap(i, batchSize) == i + 1

nextStart(i, batchSize) == i + batchSize

\* insertWordsBatched: the batches words[i:end] handed to insertBatch, from
\* offset i on
RECURSIVE sliceBatches(_, _, _)
sliceBatches(words, i, batchSize) ==
  IF i >= Len(words) THEN <<>>
  ELSE LET end == IF i + batchSize > Len(words) THEN Len(words) ELSE i + batchSize
       IN  <<SubSeq(words, i + 1, end)>>
             \o sliceBatches(words, nextStart(i, batchSize), batchSize)

NotBuilt == [done |-> FALSE, words |-> <<>>, numBatches |-> 0, batches |-> <<>>]

\* largest number of times the job of a text is processed
MaxRuns == 2

\* C-mutant: the INSERT adds a row although the key has one.
insertRow_append(rows, row) == Append(rows, row)

\* INSERT INTO inverted_index under PRIMARY KEY (word, doc_id): the rows
\* stored under the key afterwards; the written row replaces what was there
insertRow(rows, row) == <<row>>

\* insertBatch: one batch.Query of the logged batch applied to the table,
\* which maps a word to the rows stored under (word, doc_id)
insertWord(table, e) ==
  LET row == [term_frequency |-> e.Frequency, positions |-> e.Positions]
  IN  IF e.Word \in DOMAIN table
      THEN [table EXCEPT ![e.Word] = insertRow(@, row)]
      ELSE [x \in DOMAIN table \cup {e.Word} |->
              IF x = e.Word THEN insertRow(<<>>, row) ELSE table[x]]

\* insertBatch: ExecuteBatch applies the queries of the batch
RECURSIVE insertBatch(_, _, _)
insertBatch(table, batch, i) ==
  IF i > Len(batch) THEN table
  ELSE insertBatch(insertWord(table, batch[i]), batch, i + 1)

\* insertWordsBatched: the table after the batches whose ExecuteBatch
\* succeeded (those in ok) were applied
RECURSIVE insertBatches(_, _, _, _)
insertBatches(table, batches, ok, k) ==
  IF k > Len(batches) THEN table
  ELSE insertBatches(IF k \in ok THEN insertBatch(table, batches[k], 1) ELSE table,
                     batches, ok, k + 1)

NoRows == [rows |-> <<>>, runs |-> 0, complete |-> FALSE]

KInit ==
  /\ tokText \in Texts
  /\ tokIdx = NotRun
  /\ tokQry = NotRun
  /\ tokBatchSize \in 1..MaxBatchSize
  /\ tokAgg = NotBuilt
  /\ tokTable = NoRows

\* no text under examination
KQuiet ==
  /\ tokText = <<>>
  /\ tokIdx = NotRun
  /\ tokQry = NotRun
  /\ tokBatchSize = 1
  /\ tokAgg = NotBuilt
  /\ tokTable = NoRows

\* processJob: tokens := w.tokenizer.Tokenize(parsedDoc.Content)
IndexerTokenizes ==
  /\ ~tokIdx.done
  /\ tokIdx' = [done |-> TRUE, tokens |-> TokenizeIndexer(tokText)]
  /\ UNCHANGED <<tokText, tokQry, tokBatchSize, tokAgg, tokTable>>
  /\ UNCHANGED <<wvars, pvars, svars, evars, tvars, bvars, mvars>>

\* Search: toks := tk.Tokenize(query)
SearchTokenizes ==
  /\ ~tokQry.done
  /\ tokQry' = [done |-> TRUE, tokens |-> TokenizeSearch(tokText)]
  /\ UNCHANGED <<tokText, tokIdx, tokBatchSize, tokAgg, tokTable>>
  /\ UNCHANGED <<wvars, pvars, svars, evars, tvars, bvars, mvars>>

\* processJob: w.buildInvertedIndex(ctx, job.DocID, tokens), which groups the
\* tokens and calls insertWordsBatched; each batch is written or fails.  The
\* job is processed again when it is redelivered or retried.
BuildInvertedIndex ==
  /\ tokIdx.done
  /\ tokTable.runs < MaxRuns
  /\ \E words \in wordSlices(groupTokens(<<>>, tokIdx.tokens, 1)) :
       LET batches == sliceBatches(words, 0, tokBatchSize) IN
         \E ok \in SUBSET (1..Len(batches)) :
           /\ tokAgg' = [done |-> TRUE,
                         words |-> words,
                         numBatches |-> (Len(words) + tokBatchSize - 1) \div tokBatchSize,
                         batches |-> batches]
           /\ tokTable' = [rows |-> insertBatches(tokTable.rows, batches, ok, 1),
                           runs |-> tokTable.runs + 1,
                           complete |-> tokTable.complete \/ ok = 1..Len(batches)]
  /\ UNCHANGED <<tokText, tokIdx, tokQry, tokBatchSize>>
  /\ UNCHANGED <<wvars, pvars, svars, evars, tvars, bvars, mvars>>

KNext ==
  \/ IndexerTokenizes
  \/ SearchTokenizes
  \/ BuildInvertedIndex

\* Start has registered the consumer and started the worker goroutines; ctx
\* is not cancelled
TRunning ==
  /\ ictx = FALSE
  /\ istart = "wait"
  /\ imsgs = "open"

\* evaluateScaling on its own: the bounds of the inputs drawn
MaxQueueLen == 16
MaxCfgWorkers == 5

EInit ==
  /\ evalMax \in 1..MaxCfgWorkers
  /\ evalActive \in 1..evalMax
  /\ evalQueueLen \in 0..MaxQueueLen
  /\ evalSpawned = -1

\* no evaluateScaling call under examination
EQuiet ==
  /\ evalMax = 1
  /\ evalActive = 1
  /\ evalQueueLen = 0
  /\ evalSpawned = -1

\* evaluateScaling: the SCALE UP branch, from the reads of active and
\* len(c.taskChan) to the end of the spawn loop
EvaluateOnce ==
  /\ evalSpawned = -1
  /\ evalSpawned' = spawnCount(evalQueueLen, evalActive, evalMax)
  /\ UNCHANGED <<evalQueueLen, evalActive, evalMax>>
  /\ UNCHANGED <<wvars, pvars, svars, tvars, kvars, bvars, mvars>>

ENext == EvaluateOnce

\* the IndexingWorker side, with no job: its state while the pool is examined
WQuiet ==
  /\ jobs = <<>>
  /\ queue = <<>>
  /\ dlq = {}
  /\ wpc = [w \in Workers |-> "recv"]
  /\ wmsg = [w \in Workers |-> NoMsg]
  /\ wbatch = [w \in Workers |-> <<>>]
  /\ werr = [w \in Workers |-> "none"]
  /\ wsettle = [w \in Workers |-> "none"]
  /\ wpub = [w \in Workers |-> <<>>]
  /\ postings = {}
  /\ documents = {}
  /\ docRow = <<>>
  /\ processed = <<>>
  /\ stats = <<>>


(***************************************************************************)
(* Searcher (query.go) and ScyllaClientImpl.GetPostings                    *)
(***************************************************************************)
\* largest topK passed to Search
MaxTopK == 2
\* largest number of tokens of an indexed document
MaxDocTokens == 2

\* NewSearch: NewSearcher(client, 4)
ShardCount == 4

Terms == {"python", "rust", "system"}
\* doc ids; their order stands for the order of the UUID strings
Docs == {1, 2}

\* the bytes of a term
TermBytes(t) ==
  CASE t = "python" -> <<112, 121, 116, 104, 111, 110>>
    [] t = "rust" -> <<114, 117, 115, 116>>
    [] t = "system" -> <<115, 121, 115, 116, 101, 109>>

\* uint64 values are kept as 8 bytes, least significant first
\* hashString: var h uint64 = 1469598103934665603
HashOffset == <<131, 3, 157, 115, 176, 15, 101, 20>>

RECURSIVE XorBits(_, _, _)
XorBits(a, b, n) ==
  IF n = 0 THEN 0
  ELSE (((a % 2) + (b % 2)) % 2) + 2 * XorBits(a \div 2, b \div 2, n - 1)

\* h ^= uint64(s[i])
XorByte(h, c) == [h EXCEPT ![1] = XorBits(h[1], c, 8)]

\* h *= 1099511628211 (= 2^40 + 435), modulo 2^64
RECURSIVE MulPrimeFrom(_, _, _)
MulPrimeFrom(h, i, carry) ==
  IF i > 8 THEN <<>>
  ELSE LET t == h[i] * 435 + (IF i > 5 THEN h[i - 5] ELSE 0) + carry
       IN <<t % 256>> \o MulPrimeFrom(h, i + 1, t \div 256)

MulPrime(h) == MulPrimeFrom(h, 1, 0)

RECURSIVE HashFrom(_, _, _)
HashFrom(h, bytes, i) ==
  IF i > Len(bytes) THEN h
  ELSE HashFrom(MulPrime(XorByte(h, bytes[i])), bytes, i + 1)

hashString(bytes) == HashFrom(HashOffset, bytes, 1)

\* the value of 8 bytes modulo n
RECURSIVE ModFrom(_, _, _, _)
ModFrom(h, i, n, r) ==
  IF i = 0 THEN r ELSE ModFrom(h, i - 1, n, (r * 256 + h[i]) % n)

RECURSIVE Pow2Mod(_, _)
Pow2Mod(k, n) == IF k = 0 THEN 1 % n ELSE (2 * Pow2Mod(k - 1, n)) % n

\* routeTerms: int(hashString(t)) % s.ShardCount.  The conversion to int
\* reinterprets the 64 bits as signed, and % takes the sign of the dividend.
termShard(t) ==
  LET h == hashString(TermBytes(t))
      m == ModFrom(h, 8, ShardCount, 0)
  IN IF h[8] >= 128
     THEN 0 - ((Pow2Mod(64, ShardCount) - m + ShardCount) % ShardCount)
     ELSE m

\* C-mutant: shard 0 gets a request whatever the terms are.
routedShards_shard0(q) == { termShard(q[i]) : i \in 1..Len(q) } \cup {0}

\* routeTerms: the shards that get a request
routedShards(q) == { termShard(q[i]) : i \in 1..Len(q) }

\* routeTerms: m[h] = append(m[h], t), in query order
RECURSIVE termsFor(_, _, _)
termsFor(q, sh, i) ==
  IF i > Len(q) THEN <<>>
  ELSE (IF termShard(q[i]) = sh THEN <<q[i]>> ELSE <<>>) \o termsFor(q, sh, i + 1)

\* GetPostings: doc_count of a term (word_stats, or the count of its rows)
docCountOf(ix, t) == Cardinality({ d \in Docs : ix[<<t, d>>] > 0 })

\* GetPostings: the rows of a term, in clustering (doc_id) order
RECURSIVE rowsOf(_, _, _)
rowsOf(ix, t, d) ==
  IF d \notin Docs THEN <<>>
  ELSE (IF ix[<<t, d>>] > 0
        THEN <<[DocID |-> d, TF |-> ix[<<t, d>>], DocLen |-> ix[<<t, d>>],
                DocFreq |-> docCountOf(ix, t)]>>
        ELSE <<>>) \o rowsOf(ix, t, d + 1)

RECURSIVE rowsOfTerms(_, _, _)
rowsOfTerms(ix, ts, i) ==
  IF i > Len(ts) THEN <<>>
  ELSE rowsOf(ix, ts[i], 1) \o rowsOfTerms(ix, ts, i + 1)

RECURSIVE docCountSum(_, _, _)
docCountSum(ix, ts, i) ==
  IF i > Len(ts) THEN 0
  ELSE docCountOf(ix, ts[i]) + docCountSum(ix, ts, i + 1)

\* sort.Slice(results, TF descending): an insertion sort at these lengths
RECURSIVE insertByTF(_, _)
insertByTF(sorted, x) ==
  IF sorted = <<>> THEN <<x>>
  ELSE IF x.TF > sorted[Len(sorted)].TF
       THEN insertByTF(SubSeq(sorted, 1, Len(sorted) - 1), x) \o <<sorted[Len(sorted)]>>
       ELSE Append(sorted, x)

RECURSIVE sortByTF(_, _)
sortByTF(rows, i) ==
  IF i = 0 THEN <<>> ELSE insertByTF(sortByTF(rows, i - 1), rows[i])

\* GetPostings, when no query fails
GetPostings(ix, sh, ts, topN) ==
  LET results == sortByTF(rowsOfTerms(ix, ts, 1), Len(rowsOfTerms(ix, ts, 1)))
  IN [ShardID |-> sh,
      Results |-> IF Len(results) > topN THEN SubSeq(results, 1, topN) ELSE results,
      DocCount |-> docCountSum(ix, ts, 1)]

\* 10000 * ln(n), n = 1..40
LnTable ==
  <<0, 6931, 10986, 13863, 16094, 17918, 19459, 20794, 21972, 23026,
    23979, 24849, 25649, 26391, 27081, 27726, 28332, 28904, 29444, 29957,
    30445, 30910, 31355, 31781, 32189, 32581, 32958, 33322, 33673, 34012,
    34340, 34657, 34965, 35264, 35553, 35835, 36109, 36376, 36636, 36889>>

\* bm25Score with k1 = 1.2, b = 0.75 and avgDocLen = totalDocLen / docCount,
\* in units of 1/10000:
\*   idf    = ln((N - df + 0.5) / (df + 0.5) + 1) = ln((2N + 2) / (2df + 1))
\*   tfNorm = tf * 2.2 / (tf + 1.2 * (0.25 + 0.75 * docLen * docCount / totalDocLen))
\*          = 44 * T * tf / (20 * T * tf + 6 * T + 18 * docLen * docCount)
bm25Score(tf, docLen, totalDocLen, docCount, docFreq, totalDocs) ==
  IF tf = 0 \/ docFreq = 0 THEN 0
  ELSE ((LnTable[2 * totalDocs + 2] - LnTable[2 * docFreq + 1]) * (44 * totalDocLen * tf))
         \div (20 * totalDocLen * tf + 6 * totalDocLen + 18 * docLen * docCount)

\* ---- bm25Score as a pure function of its arguments ----

\* largest term frequency, document frequency, collection size and document
\* length handed to bm25Score
MaxTf == 3
MaxDf == 3
MaxDocs == 3
MaxDocLen == 2

NoArgs == [tf |-> 0, docLen |-> 0, totalDocLen |-> 1, docCount |-> 1,
           docFreq |-> 0, totalDocs |-> 0]

NoScore == [done |-> FALSE, score |-> 0]

\* the arguments of a call; avgDocLen is totalDocLen / docCount as
\* mergeShardCandidates computes it
BInit ==
  /\ bmArgs \in [tf : 0..MaxTf, docLen : 0..MaxDocLen, totalDocLen : 1..MaxDocLen,
                 docCount : 1..2, docFreq : 0..MaxDf, totalDocs : 0..MaxDocs]
  /\ bmOut = NoScore

\* no call under examination
BQuiet ==
  /\ bmArgs = NoArgs
  /\ bmOut = NoScore

\* bm25Score applied to a record of arguments
scoreOf(a) ==
  bm25Score(a.tf, a.docLen, a.totalDocLen, a.docCount, a.docFreq, a.totalDocs)

\* one call of bm25Score
ScoreOnce ==
  /\ ~bmOut.done
  /\ bmOut' = [done |-> TRUE, score |-> scoreOf(bmArgs)]
  /\ UNCHANGED <<bmArgs, wvars, pvars, svars, evars, tvars, kvars, mvars>>

BNext == ScoreOnce

\* container/heap over minHeap; positions are 0-based as in the source
Less_greater(h, i, j) == h[i + 1].Score > h[j + 1].Score

Less(h, i, j) == h[i + 1].Score < h[j + 1].Score

Swap(h, i, j) == [h EXCEPT ![i + 1] = h[j + 1], ![j + 1] = h[i + 1]]

RECURSIVE up(_, _)
up(h, j) ==
  LET i == IF j = 0 THEN 0 ELSE (j - 1) \div 2
  IN IF i = j \/ ~Less(h, j, i) THEN h ELSE up(Swap(h, i, j), i)

RECURSIVE down(_, _, _)
down(h, i, n) ==
  LET j1 == 2 * i + 1 IN
    IF j1 >= n THEN h
    ELSE LET j == IF j1 + 1 < n /\ Less(h, j1 + 1, j1) THEN j1 + 1 ELSE j1
         IN IF ~Less(h, j, i) THEN h ELSE down(Swap(h, i, j), j, n)

\* heap.Push
heapPush(h, x) == up(Append(h, x), Len(h))

\* heap.Pop: the heap after the pop
heapPopRest(h) == SubSeq(down(Swap(h, 0, Len(h) - 1), 0, Len(h) - 1), 1, Len(h) - 1)

\* heap.Pop: the element popped
heapPopTop(h) == down(Swap(h, 0, Len(h) - 1), 0, Len(h) - 1)[Len(h)]

RECURSIVE flatten(_, _)
flatten(rs, i) ==
  IF i > Len(rs) THEN <<>> ELSE rs[i].Results \o flatten(rs, i + 1)

RECURSIVE sumDocCount(_, _)
sumDocCount(rs, i) ==
  IF i > Len(rs) THEN 0 ELSE rs[i].DocCount + sumDocCount(rs, i + 1)

RECURSIVE sumDocLen(_, _)
sumDocLen(ds, i) ==
  IF i > Len(ds) THEN 0 ELSE ds[i].DocLen + sumDocLen(ds, i + 1)

\* mergeShardCandidates: the scored candidates, all
scoreAll(rs) ==
  LET ds == flatten(rs, 1)
      totalDocs == sumDocCount(rs, 1)
      totalDocLen == sumDocLen(ds, 1)
  IN [i \in 1..Len(ds) |->
        [DocID |-> ds[i].DocID,
         Score |-> bm25Score(ds[i].TF, ds[i].DocLen, totalDocLen, Len(ds),
                             ds[i].DocFreq, totalDocs),
         TF |-> ds[i].TF, DocLen |-> ds[i].DocLen, DocFreq |-> ds[i].DocFreq]]

\* mergeShardCandidates: the loop over all; "panic" when (*h)[0] is read
\* from an empty heap
RECURSIVE heapLoop(_, _, _, _)
heapLoop(h, all, i, k) ==
  IF i > Len(all) THEN [kind |-> "ok", res |-> h]
  ELSE IF Len(h) < k THEN heapLoop(heapPush(h, all[i]), all, i + 1, k)
  ELSE IF Len(h) = 0 THEN [kind |-> "panic", res |-> <<>>]
  ELSE IF all[i].Score > h[1].Score
       THEN heapLoop(heapPush(heapPopRest(h), all[i]), all, i + 1, k)
       ELSE heapLoop(h, all, i + 1, k)

\* mergeShardCandidates: out[i] = heap.Pop(h) for i = n-1 .. 0
RECURSIVE drain(_)
drain(h) ==
  IF h = <<>> THEN <<>> ELSE Append(drain(heapPopRest(h)), heapPopTop(h))

mergeShardCandidates(rs, k) ==
  LET r == heapLoop(<<>>, scoreAll(rs), 1, k)
  IN IF r.kind = "panic" THEN r ELSE [kind |-> "ok", res |-> drain(r.res)]

\* the documents an index may hold: at most MaxDocTokens tokens each
Indexes ==
  { ix \in [Terms \X Docs -> 0..MaxDocTokens] :
      \A d \in Docs :
        ix[<<"python", d>>] + ix[<<"rust", d>>] + ix[<<"system", d>>] <= MaxDocTokens }

NoOut == [kind |-> "none", res |-> <<>>]

\* the zero PostingsResponse, as in shardResult{err: err}
NoResponse == [ShardID |-> 0, Results |-> <<>>, DocCount |-> 0]

fetchFailed_never(r) == FALSE

\* Search: if r.err != nil
fetchFailed(r) == r.err

\* the words of the query strings: the indexed terms and a stop word
QueryWords ==
  { <<"p", "y", "t", "h", "o", "n">>, <<"r", "u", "s", "t">>,
    <<"s", "y", "s", "t", "e", "m">>, <<"t", "h", "e">> }

\* query strings of 0, 1 or 2 words
QueryTexts ==
  { Join(ws, 1) : ws \in UNION { [1..n -> QueryWords] : n \in 0..2 } }

\* a token's Word as the string the index is keyed by
termString(word) ==
  CASE word = <<"p", "y", "t", "h", "o", "n">> -> "python"
    [] word = <<"r", "u", "s", "t">> -> "rust"
    [] word = <<"s", "y", "s", "t", "e", "m">> -> "system"

\* Search: for _, t := range toks { terms = append(terms, t.Word) }
RECURSIVE queryTerms(_, _)
queryTerms(toks, i) ==
  IF i > Len(toks) THEN <<>>
  ELSE <<termString(toks[i].Word)>> \o queryTerms(toks, i + 1)

SInit ==
  /\ index \in Indexes
  /\ qtext \in QueryTexts
  /\ query = <<>>
  /\ topK \in 0..MaxTopK
  /\ qpc = "start"
  /\ shState = <<>>
  /\ resultsCh = <<>>
  /\ chClosed = FALSE
  /\ shardResponses = <<>>
  /\ qout = NoOut

\* the Searcher with nothing to do: its state while another component is examined
SQuiet ==
  /\ index = [p \in Terms \X Docs |-> 0]
  /\ qtext = <<>>
  /\ query = <<>>
  /\ topK = 0
  /\ qpc = "done"
  /\ shState = <<>>
  /\ resultsCh = <<>>
  /\ chClosed = FALSE
  /\ shardResponses = <<>>
  /\ qout = NoOut

\* Search: Tokenize, routeTerms, make(resultsCh), one goroutine per routed shard, and
\* the goroutine that closes resultsCh after wg.Wait()
SearchStart ==
  /\ qpc = "start"
  /\ query' = queryTerms(TokenizeSearch(qtext), 1)
  /\ shState' = [sh \in routedShards(query') |-> "run"]
  /\ qpc' = "collect"
  /\ UNCHANGED <<index, qtext, topK, resultsCh, chClosed, shardResponses, qout>>
  /\ UNCHANGED sOther

\* C-mutant: the result channel is unbuffered.
chanCap_unbuffered(nShards) == 0

\* resultsCh := make(chan shardResult, len(termToShards))
chanCap(nShards) == nShards

\* a send on a channel goes through when the buffer has room or the receiver
\* is waiting on the empty channel
canSend(ch, cap, receiving) == Len(ch) < cap \/ (receiving /\ ch = <<>>)

\* the send of a shard goroutine on resultsCh can go through
shardCanSend == canSend(resultsCh, chanCap(Cardinality(DOMAIN shState)), qpc = "collect")

\* a shard goroutine: GetPostings returned; its result is sent on resultsCh
\* (which has room for every shard's result)
ShardReply(sh) ==
  /\ sh \in DOMAIN shState
  /\ shState[sh] = "run"
  /\ shardCanSend
  /\ \/ \* a query failed, or the 2 s deadline passed
        /\ shState' = [shState EXCEPT ![sh] = "err"]
        /\ resultsCh' = Append(resultsCh, [err |-> TRUE, resp |-> NoResponse])
     \/ /\ shState' = [shState EXCEPT ![sh] = "ok"]
        /\ resultsCh' = Append(resultsCh,
             [err |-> FALSE,
              resp |-> GetPostings(index, sh, termsFor(query, sh, 1), topK * 2)])
  /\ UNCHANGED <<index, qtext, query, topK, qpc, chClosed, shardResponses, qout>>
  /\ UNCHANGED sOther

\* go func() { wg.Wait(); close(resultsCh) }()
CloseResults ==
  /\ qpc # "start"
  /\ ~chClosed
  /\ \A sh \in DOMAIN shState : shState[sh] # "run"
  /\ chClosed' = TRUE
  /\ UNCHANGED <<index, qtext, query, topK, qpc, shState, resultsCh, shardResponses, qout>>
  /\ UNCHANGED sOther

\* Search: one iteration of for r := range resultsCh
Collect ==
  /\ qpc = "collect"
  /\ resultsCh # <<>>
  /\ resultsCh' = Tail(resultsCh)
  /\ IF fetchFailed(Head(resultsCh))
     THEN \* return nil, fmt.Errorf("shard fetch error: %w", r.err)
          /\ qout' = [kind |-> "error", res |-> <<>>]
          /\ qpc' = "done"
          /\ UNCHANGED shardResponses
     ELSE /\ shardResponses' = Append(shardResponses, Head(resultsCh).resp)
          /\ UNCHANGED <<qout, qpc>>
  /\ UNCHANGED <<index, qtext, query, topK, shState, chClosed>>
  /\ UNCHANGED sOther

\* Search: the range loop ends on the closed, drained channel;
\* mergeShardCandidates(shardResponses, topK) is returned
Merge ==
  /\ qpc = "collect"
  /\ resultsCh = <<>>
  /\ chClosed
  /\ qout' = mergeShardCandidates(shardResponses, topK)
  /\ qpc' = "done"
  /\ UNCHANGED <<index, qtext, query, topK, shState, resultsCh, chClosed, shardResponses>>
  /\ UNCHANGED sOther

SNext ==
  \/ SearchStart
  \/ \E sh \in (0 - ShardCount)..ShardCount : ShardReply(sh)
  \/ CloseResults
  \/ Collect
  \/ Merge

InitSearch == SInit /\ WQuiet /\ PQuiet /\ EQuiet /\ TRunning /\ KQuiet /\ BQuiet /\ MQuiet

SpecSearch == InitSearch /\ [][SNext]_vars

\* mergeShardCandidates on its own: candidate entries a client may return
MergeEntries ==
  { [DocID |-> d, TF |-> tf, DocLen |-> tf, DocFreq |-> df] :
      d \in Docs, tf \in {1, 2}, df \in {1, 2} }

MergeResults == {<<>>} \cup { <<a>> : a \in MergeEntries }
                  \cup { <<a, b>> : a \in MergeEntries, b \in MergeEntries }

MergeResponses == { [ShardID |-> 0, Results |-> r, DocCount |-> 2] : r \in MergeResults }

MInit ==
  /\ index = [p \in Terms \X Docs |-> 0]
  /\ qtext = <<>>
  /\ query = <<>>
  /\ topK \in 0..MaxTopK
  /\ qpc = "collect"
  /\ shState = <<>>
  /\ resultsCh = <<>>
  /\ chClosed = TRUE
  /\ shardResponses \in { <<a>> : a \in MergeResponses }
                          \cup { <<a, b>> : a \in MergeResponses, b \in MergeResponses }
  /\ qout = NoOut

MNext == Merge

InitMerge == MInit /\ WQuiet /\ PQuiet /\ EQuiet /\ TRunning /\ KQuiet /\ BQuiet /\ MQuiet

SpecMerge == InitMerge /\ [][MNext]_vars

\* Start has just been called
TInit ==
  /\ WInit
  /\ ictx = FALSE
  /\ istart = "consume"
  /\ imsgs = "open"

allStopped_nowait(pcs) == TRUE

\* Start: wg.Wait() returns when every worker goroutine has returned
allStopped(pcs) == \A w \in Workers : pcs[w] = "stopped"

\* Start: w.consumer.Consume(); on an error Start returns it at once,
\* otherwise the worker goroutines are started
StartConsume ==
  /\ istart = "consume"
  /\ \/ istart' = "failed"
     \/ istart' = "wait"
  /\ UNCHANGED <<wvars, ictx, imsgs>>
  /\ UNCHANGED <<pvars, svars, evars, kvars, bvars, mvars>>

\* the caller cancels ctx
CancelCtx ==
  /\ ~ictx
  /\ ictx' = TRUE
  /\ UNCHANGED <<wvars, istart, imsgs>>
  /\ UNCHANGED <<pvars, svars, evars, kvars, bvars, mvars>>

\* worker: case <-ctx.Done(): return
WorkerStop(w) ==
  /\ istart = "wait"
  /\ wpc[w] = "recv"
  /\ ictx
  /\ wpc' = [wpc EXCEPT ![w] = "stopped"]
  /\ UNCHANGED <<jobs, queue, dlq, wmsg, wbatch, werr, wsettle, wpub, postings, documents, docRow, processed, stats>>
  /\ UNCHANGED wOther

\* the broker closes the delivery channel (the AMQP channel or connection
\* is gone); nothing more is delivered
MessagesClose ==
  /\ istart = "wait"
  /\ imsgs = "open"
  /\ imsgs' = "closed"
  /\ UNCHANGED <<wvars, ictx, istart>>
  /\ UNCHANGED <<pvars, svars, evars, kvars, bvars, mvars>>

\* worker: case msg, ok := <-messages with !ok: return
WorkerChannelClosed(w) ==
  /\ istart = "wait"
  /\ wpc[w] = "recv"
  /\ imsgs = "closed"
  /\ wpc' = [wpc EXCEPT ![w] = "stopped"]
  /\ UNCHANGED <<jobs, queue, dlq, wmsg, wbatch, werr, wsettle, wpub, postings, documents, docRow, processed, stats>>
  /\ UNCHANGED wOther

\* ctx.Err(): nil until ctx is done
ctxErr(done) == IF done THEN "context canceled" ELSE "nil"

\* C-mutant: Start returns as soon as the workers have returned.
startCanReturn_workersOnly(done, pcs) == allStopped(pcs)

\* Start: <-ctx.Done() and then wg.Wait() have both let Start through
startCanReturn(done, pcs) == done /\ allStopped(pcs)

\* Start: <-ctx.Done(); wg.Wait(); return ctx.Err()
StartReturn ==
  /\ istart = "wait"
  /\ startCanReturn(ictx, wpc)
  /\ istart' = "returned"
  /\ UNCHANGED <<wvars, ictx, imsgs>>
  /\ UNCHANGED <<pvars, svars, evars, kvars, bvars, mvars>>

\* the worker goroutines run once Start has started them
TNext ==
  \/ StartConsume
  \/ CancelCtx
  \/ StartReturn
  \/ MessagesClose
  \/ \E w \in Workers : WorkerStop(w)
  \/ \E w \in Workers : WorkerChannelClosed(w)
  \/ istart = "wait" /\ WNext

InitStart == TInit /\ PQuiet /\ SQuiet /\ EQuiet /\ KQuiet /\ BQuiet /\ MQuiet

SpecStart == InitStart /\ [][TNext]_vars

\* the goroutines Start has started are scheduled, and so is Start
TFair ==
  /\ WF_vars(istart = "wait" /\ WNext)
  /\ WF_vars(StartReturn)
  /\ \A w \in Workers : WF_vars(WorkerStop(w) \/ WorkerChannelClosed(w))

SpecStartFair == InitStart /\ [][TNext]_vars /\ TFair

InitScale == EInit /\ WQuiet /\ PQuiet /\ SQuiet /\ TRunning /\ KQuiet /\ BQuiet /\ MQuiet

SpecScale == InitScale /\ [][ENext]_vars

InitWorker == WInit /\ PQuiet /\ SQuiet /\ EQuiet /\ TRunning /\ KQuiet /\ BQuiet /\ MQuiet

SpecWorker == InitWorker /\ [][WNext]_vars

InitPool == PInit /\ WQuiet /\ SQuiet /\ EQuiet /\ TRunning /\ KQuiet /\ BQuiet /\ MQuiet

SpecPool == InitPool /\ [][PNext]_vars

InitText == KInit /\ WQuiet /\ PQuiet /\ SQuiet /\ EQuiet /\ TRunning /\ BQuiet /\ MQuiet

SpecText == InitText /\ [][KNext]_vars

InitScore == BInit /\ WQuiet /\ PQuiet /\ SQuiet /\ EQuiet /\ TRunning /\ KQuiet /\ MQuiet

SpecScore == InitScore /\ [][BNext]_vars

InitProcess == MInitProc /\ WQuiet /\ PQuiet /\ SQuiet /\ EQuiet /\ TRunning /\ KQuiet /\ BQuiet

SpecProcess == InitProcess /\ [][MNextProc]_vars


(***************************************************************************)
(* Claims about the IndexingWorker (checked under SpecWorker)              *)
(***************************************************************************)
\* the retry count a header carries, read off the message
HdrCount(hdr) == IF hdr = <<>> THEN 0 ELSE hdr[1]

\* C1: a job is handed to processJob at most maxRetries + 1 times; no copy of
\* it in the primary queue or in flight carries x-retry-count above
\* maxRetries; and the failed delivery that carries x-retry-count =
\* maxRetries (the (maxRetries + 1)-th attempt) is nacked without requeue,
\* nothing being published for it.
C1_RetryCap ==
  /\ \A j \in Jobs : processed[j] <= maxRetries + 1
  /\ \A i \in 1..Len(queue) : HdrCount(queue[i].hdr) <= maxRetries
  /\ \A m \in dlq : HdrCount(m.hdr) <= maxRetries
  /\ \A w \in Workers :
       /\ HdrCount(wmsg[w].hdr) <= maxRetries
       /\ (wpc[w] = "settle" /\ werr[w] # "none" /\ HdrCount(wmsg[w].hdr) = maxRetries)
            => (wsettle[w] = "nack" /\ wpub[w] = <<>>)

\* C1 witness: a job has failed maxRetries + 1 times and sits in the
\* dead-letter queue with x-retry-count = maxRetries.
C1_Witness ==
  \E j \in Jobs :
    /\ processed[j] = maxRetries + 1
    /\ [job |-> j, hdr |-> <<maxRetries>>] \in dlq

\* C2 (as stated): whenever processJob has failed for a delivery with retry
\* count r, then r < 3 means one copy was published with r + 1 and the
\* delivery is acked, and r >= 3 means nothing was published and the
\* delivery is nacked.
C2_Original ==
  \A w \in Workers :
    (wpc[w] = "settle" /\ werr[w] # "none") =>
      LET r == HdrCount(wmsg[w].hdr) IN
        IF r < 3
        THEN wpub[w] = <<"ok", r + 1>> /\ wsettle[w] = "ack"
        ELSE wpub[w] = <<>> /\ wsettle[w] = "nack"

\* C2 (amended): the step that handles a failed processJob for a delivery
\* with retry count r makes, when r < 3, exactly one Publish call with
\* x-retry-count = r + 1: if it succeeds one copy joins the primary queue and
\* the delivery is acked, if it fails nothing joins the queue and the
\* delivery is nacked without requeue; when r >= 3 nothing is published and
\* the delivery is nacked without requeue.
C2_RetryOrDeadLetter ==
  [][ \A w \in Workers :
        (wpc[w] = "handle" /\ wpc'[w] = "settle" /\ werr[w] # "none") =>
          LET r == HdrCount(wmsg[w].hdr) IN
            IF r < 3
            THEN \/ /\ queue' = Append(queue, [job |-> wmsg[w].job, hdr |-> <<r + 1>>])
                    /\ wpub'[w] = <<"ok", r + 1>>
                    /\ wsettle'[w] = "ack"
                 \/ /\ queue' = queue
                    /\ wpub'[w] = <<"fail", r + 1>>
                    /\ wsettle'[w] = "nack"
            ELSE /\ queue' = queue
                 /\ wpub'[w] = <<>>
                 /\ wsettle'[w] = "nack" ]_vars

\* C2 witness: a failed delivery with retry count 2 has been republished
\* with count 3 and is about to be acked.
C2_Witness ==
  \E w \in Workers :
    /\ wpc[w] = "settle"
    /\ werr[w] # "none"
    /\ wmsg[w].hdr = <<2>>
    /\ wpub[w] = <<"ok", 3>>
    /\ wsettle[w] = "ack"

\* C3: a document record is written only by an attempt all of whose posting
\* batches completed successfully, and at that moment every posting entry of
\* the job is in the store.
C3_DocumentAfterPostings ==
  [][ \A j \in Jobs :
        (j \in documents' /\ j \notin documents) =>
          /\ \E w \in Workers :
               /\ wmsg[w].job = j
               /\ wpc[w] = "batches"
               /\ \A k \in DOMAIN wbatch[w] : wbatch[w][k] = "ok"
          /\ \A x \in 1..jobs[j].nwords : <<x, j>> \in postings ]_vars

\* C3 witness: a document record exists for a job with several batches.
C3_Witness ==
  \E j \in Jobs :
    /\ j \in documents
    /\ numBatches(jobs[j].nwords) >= 2

(***************************************************************************)
(* Claims about the AutoScalingConsumer (checked under SpecPool)           *)
(***************************************************************************)
\* C4: from the end of Start until the context is cancelled or the dispatch
\* channel is closed, active >= minWorkers.
C4_AtLeastMinWorkers ==
  (startPc = "done" /\ ~ctxDone /\ ~taskClosed) => activeWorkers >= minWorkers

\* C5: active <= maxWorkers in every reachable state.
C5_AtMostMaxWorkers == activeWorkers <= maxWorkers

\* C5 witness: a scale-up evaluation has finished its spawn loop with the
\* pool at maxWorkers while the backlog asked for more workers than fitted.
C5_Witness ==
  /\ spc = "spawn"
  /\ sleft = 0
  /\ activeWorkers = maxWorkers
  /\ taskLen > scaleUpThreshold
  /\ needed(taskLen) >= 2

Returned == qpc = "done" /\ qout.kind # "none"

C7_SortedWithTieBreak ==
  (Returned /\ qout.kind = "ok") =>
    \A i \in 1..(Len(qout.res) - 1) :
      \/ qout.res[i].Score > qout.res[i + 1].Score
      \/ /\ qout.res[i].Score = qout.res[i + 1].Score
         /\ qout.res[i].DocID <= qout.res[i + 1].DocID

C9_EachDocOnce ==
  (Returned /\ qout.kind = "ok") =>
    \A i, j \in 1..Len(qout.res) :
      qout.res[i].DocID = qout.res[j].DocID => i = j

(***************************************************************************)
(* Further claims about the IndexingWorker                                 *)
(***************************************************************************)
\* the worker goroutines are scheduled, and the broker delivers what is
\* queued: a step that stays possible is eventually taken
SpecWorkerFair == InitWorker /\ [][WNext]_vars /\ WF_vars(WNext)

\* the copies of job j that are queued or held by a worker that has not
\* republished it
CopiesOf(j) ==
  Cardinality({ i \in 1..Len(queue) : queue[i].job = j })
    + Cardinality({ w \in Workers : wmsg[w].job = j /\ wpub[w] \notin {<<"ok", r>> : r \in 1..maxRetries} })

WorkerStep(w) ==
  \/ WorkerMarkIdle(w)
  \/ WorkerCtxDone(w)
  \/ WorkerTake(w)
  \/ WorkerChanClosed(w)
  \/ WorkerIdleTimeout(w)
  \/ WorkerSettle(w)
  \/ WorkerProcessed(w)
  \/ WorkerExit(w)

\* every goroutine of the pool is scheduled and every armed idle timer
\* fires; the broker and the caller of Shutdown are not obliged to act
PFair ==
  /\ WF_vars(StartSpawn \/ StartGo)
  /\ WF_vars(DispatchRecv \/ DispatchClose \/ DispatchSend \/ DispatchAbandon)
  /\ WF_vars(EvaluateScaling \/ ScaleSpawn \/ ScaleReturn \/ ScalerStop)
  /\ \A w \in Slots : WF_vars(WorkerStep(w)) /\ WF_vars(TimerExpires(w))

SpecPoolFair == InitPool /\ [][PNext]_vars /\ PFair

\* a select with several ready cases picks one at random, so a goroutine
\* that finds <-c.ctx.Done() ready again and again takes it in the end; the
\* dispatcher finds it ready at every select once the context is cancelled.
\* For the workers it is enough that some worker takes it when workers find
\* it ready again and again.
PFairSelect ==
  /\ WF_vars(DispatchClose \/ DispatchAbandon)
  /\ SF_vars(ScalerStop)
  /\ SF_vars(\E w \in Slots : WorkerCtxDone(w))

SpecPoolShutdown == InitPool /\ [][PNext]_vars /\ PFair /\ PFairSelect

\* the pool is running, the dispatch channel is empty and the broker has
\* nothing to deliver
Drained ==
  /\ startPc = "done"
  /\ ~ctxDone
  /\ ~taskClosed
  /\ broker = "quiet"
  /\ dpc = "select"
  /\ taskLen = 0

\* C13: if from some point on the dispatch channel stays empty and no
\* delivery arrives, then from some point on active = minWorkers.
C13_ConvergesToMinWorkers ==
  <>[]Drained => <>[](activeWorkers = minWorkers)

\* C14 (as stated): an evaluation with queueLen > threshold and
\* active < maxWorkers spawns min(ceil(queueLen / 5), maxWorkers - active)
\* workers, any other evaluation none.
C14_Original ==
  evalSpawned # -1 =>
    evalSpawned =
      IF evalQueueLen > 10 /\ evalActive < evalMax
      THEN min((evalQueueLen + 4) \div 5, evalMax - evalActive)
      ELSE 0

\* C14 (amended): an evaluation with queueLen > threshold and
\* active < maxWorkers spawns min(floor(queueLen / 5), maxWorkers - active)
\* workers, which is at least one; any other evaluation spawns none.
C14_SpawnsFloorOfQueueLen ==
  evalSpawned # -1 =>
    IF evalQueueLen > 10 /\ evalActive < evalMax
    THEN /\ evalSpawned >= 1
         /\ evalSpawned <= evalMax - evalActive
         /\ evalSpawned * 5 <= evalQueueLen
         /\ \/ evalSpawned = evalMax - evalActive
            \/ evalQueueLen < (evalSpawned + 1) * 5
    ELSE evalSpawned = 0

\* C14 witness: 14 queued messages with room for three more workers: two
\* workers were spawned (floor(14 / 5) = 2, while ceil(14 / 5) = 3).
C14_Witness ==
  /\ evalQueueLen = 14
  /\ evalMax - evalActive = 3
  /\ evalSpawned = 2

\* C15: the idle counter equals the number of workers waiting in the select
\* on the dispatch channel, and 0 <= idle <= active.
C15_IdleCountsWaitingWorkers ==
  /\ idleWorkers = Cardinality({ w \in Slots : pw[w] = "select" })
  /\ 0 <= idleWorkers
  /\ idleWorkers <= activeWorkers

(***************************************************************************)
(* Claims about IndexingWorker.Start (checked under SpecStart)             *)
(***************************************************************************)
\* C16 (as stated): when Start has returned, ctx is cancelled, every worker
\* has returned, and every delivery a worker received was acked or
\* republished: none is held by a worker and none was dead-lettered.
C16_Original ==
  istart \in {"returned", "failed"} =>
    /\ ictx
    /\ \A w \in Workers : wpc[w] = "stopped" /\ wmsg[w] = NoMsg
    /\ dlq = {}

\* C16 (amended): Start returns at once with an error when Consume fails, no
\* delivery having been received; otherwise it returns only after ctx is
\* cancelled and every worker goroutine has returned, and then no worker
\* holds a delivery: each delivery received was acked (after success or
\* after republishing) or nacked without requeue.
C16_StartReturnsAfterWorkers ==
  /\ istart = "failed" => \A j \in Jobs : processed[j] = 0
  /\ istart = "returned" =>
       /\ ictx
       /\ \A w \in Workers :
            /\ wpc[w] = "stopped"
            /\ wmsg[w] = NoMsg
            /\ wsettle[w] = "none"

\* C16 witness: Start has returned after a delivery was processed and
\* nacked without requeue.
C16_Witness ==
  /\ istart = "returned"
  /\ \E m \in dlq : processed[m.job] >= 1

(***************************************************************************)
(* Claims about the tokenizers (checked under SpecText)                    *)
(***************************************************************************)
\* the terms of a token sequence
RECURSIVE WordsOf(_, _)
WordsOf(tokens, i) ==
  IF i > Len(tokens) THEN <<>> ELSE <<tokens[i].Word>> \o WordsOf(tokens, i + 1)

\* C17: for every text, the indexer's tokenizer and the query
\* coordinator's tokenizer return the same term sequence.
C17_SameTermSequence ==
  (tokIdx.done /\ tokQry.done) =>
    WordsOf(tokIdx.tokens, 1) = WordsOf(tokQry.tokens, 1)

\* the terms of the entries of a word slice
RECURSIVE EntryWords(_, _)
EntryWords(words, i) ==
  IF i > Len(words) THEN <<>> ELSE <<words[i].Word>> \o EntryWords(words, i + 1)

\* C18: the aggregate built from a token stream has exactly one entry per
\* distinct term of the stream; every entry has Frequency >= 1, as many
\* positions as its Frequency, and strictly increasing positions.
C18_OneEntryPerTerm ==
  tokAgg.done =>
    /\ { tokAgg.words[k].Word : k \in 1..Len(tokAgg.words) }
         = { tokIdx.tokens[i].Word : i \in 1..Len(tokIdx.tokens) }
    /\ \A a, b \in 1..Len(tokAgg.words) :
         tokAgg.words[a].Word = tokAgg.words[b].Word => a = b
    /\ \A k \in 1..Len(tokAgg.words) :
         LET e == tokAgg.words[k]
         IN  /\ e.Frequency >= 1
             /\ Len(e.Positions) = e.Frequency
             /\ \A a, b \in 1..Len(e.Positions) : a < b => e.Positions[a] < e.Positions[b]
             /\ \A a \in 1..Len(e.Positions) :
                  tokIdx.tokens[e.Positions[a] + 1].Word = e.Word

\* an aggregate of two entries, one of them for a term that occurs twice
C18_Witness ==
  /\ tokAgg.done
  /\ Len(tokAgg.words) = 2
  /\ \E k \in 1..2 : tokAgg.words[k].Frequency = 2 /\ tokAgg.words[k].Positions = <<0, 2>>

\* C19: insertWordsBatched hands the n entries of the aggregate to
\* ceil(n / B) batches of at most B entries, and every term is in exactly one
\* batch.
C19_BatchesPartitionTheAggregate ==
  tokAgg.done =>
    LET n == Len(tokAgg.words)
        B == tokBatchSize
        bs == tokAgg.batches
    IN  /\ Len(bs) * B >= n
        /\ (Len(bs) - 1) * B < n \/ (n = 0 /\ Len(bs) = 0)
        /\ Len(bs) = tokAgg.numBatches
        /\ \A k \in 1..Len(bs) : Len(bs[k]) >= 1 /\ Len(bs[k]) <= B
        /\ \A x \in 1..n :
             Cardinality({ <<k, y>> \in (1..Len(bs)) \X (1..B) :
                             y <= Len(bs[k]) /\ bs[k][y].Word = tokAgg.words[x].Word }) = 1
        /\ \A k \in 1..Len(bs) : \A y \in 1..Len(bs[k]) :
             \E x \in 1..n : tokAgg.words[x] = bs[k][y]

\* three entries in batches of two: a full batch and a batch of one
C19_Witness ==
  /\ tokAgg.done
  /\ tokBatchSize = 2
  /\ Len(tokAgg.words) = 3
  /\ Len(tokAgg.batches) = 2
  /\ Len(tokAgg.batches[2]) = 1

(***************************************************************************)
(* Claims about the statistics update (checked under SpecWorker)           *)
(***************************************************************************)
\* C20: the statistics update never changes the outcome of a job.  When the
\* posting batches and the document write of a delivery succeed, processJob
\* returns nil; a delivery whose processJob returned nil is acked and not
\* republished, whatever the state of the statistics goroutine; and a step of
\* that goroutine changes neither the queues nor any worker's result.
C20_StatsNeverChangeOutcome ==
  /\ [](\A w \in Workers :
          (wpc[w] = "settle" /\ werr[w] = "none") =>
             (wsettle[w] = "ack" /\ wpub[w] = <<>>))
  /\ [][ /\ \A w \in Workers :
              ( /\ wpc[w] = "batches" /\ wpc'[w] = "handle"
                /\ ~batchesFailed(wbatch[w])
                /\ wmsg[w].job \in documents' \ documents )
              => (werr'[w] = "none" /\ stats'[wmsg[w].job] = "run")
         /\ \A w \in Workers :
              (wpc[w] = "handle" /\ werr[w] = "none" /\ wpc'[w] = "settle")
              => (wsettle'[w] = "ack" /\ queue' = queue /\ dlq' = dlq)
         /\ (\E j \in Jobs : stats[j] = "run" /\ stats'[j] \in {"ok", "failed"})
              => UNCHANGED <<queue, dlq, wpc, werr, wsettle, wpub, postings, documents>>
     ]_vars

\* a delivery is about to be acked although its statistics update has failed
C20_Witness ==
  \E w \in Workers :
    /\ wpc[w] = "settle"
    /\ werr[w] = "none"
    /\ wsettle[w] = "ack"
    /\ stats[wmsg[w].job] = "failed"

(***************************************************************************)
(* Claims about undecodable deliveries (checked under SpecWorker)          *)
(***************************************************************************)
\* C21: a delivery whose body is not an indexing job is nacked without
\* requeue at once: the step that receives it puts it on the dead-letter
\* queue and changes nothing else; processJob is never invoked for it, it is
\* never republished, and no row is written for it.
C21_MalformedIsDeadLettered ==
  /\ [](\A j \in Jobs : jobs[j].kind = "malformed" =>
          /\ processed[j] = 0
          /\ j \notin documents
          /\ \A x \in 1..MaxWords : <<x, j>> \notin postings
          /\ stats[j] = "none"
          /\ \A w \in Workers : wmsg[w].job # j
          /\ \A i \in 1..Len(queue) : queue[i].job = j => queue[i].hdr = <<>>)
  /\ [][ (queue # <<>> /\ queue' = Tail(queue) /\ jobs[Head(queue).job].kind = "malformed")
           => /\ dlq' = dlq \cup {Head(queue)}
              /\ UNCHANGED <<wpc, wmsg, werr, wsettle, wpub, postings, documents, docRow, processed, stats>>
     ]_vars

\* an undecodable delivery has been dead-lettered
C21_Witness ==
  \E m \in dlq :
    /\ jobs[m.job].kind = "malformed"
    /\ m.hdr = <<>>
    /\ queue = <<>>

(***************************************************************************)
(* Claims about queries without terms (checked under SpecSearch)           *)
(***************************************************************************)
\* C22: when the query string tokenizes to no token, Search sends no shard
\* request and returns an empty result and no error.
C22_EmptyQueryEmptyResult ==
  (qpc # "start" /\ TokenizeSearch(qtext) = <<>>) =>
    /\ query = <<>>
    /\ DOMAIN shState = {}
    /\ resultsCh = <<>>
    /\ shardResponses = <<>>
    /\ Returned => qout = [kind |-> "ok", res |-> <<>>]

\* Search has returned for a query made of stop words only
C22_Witness ==
  /\ Returned
  /\ qtext = <<"t", "h", "e", " ", "t", "h", "e">>
  /\ qout = [kind |-> "ok", res |-> <<>>]
  /\ \E p \in Terms \X Docs : index[p] > 0

(***************************************************************************)
(* Claims about the pool's workers and dispatcher (checked under SpecPool) *)
(***************************************************************************)
\* C23: a pool worker that has received a delivery settles it exactly once
\* (ack, nack with requeue or nack without requeue) before it does anything
\* else: from processMessage it goes on only through one settling call, it
\* returns to the loop only after that call, and it exits or takes another
\* delivery only from the select, also when the context has been cancelled.
C23_SettledExactlyOnce ==
  [][ \A w \in Slots :
        pw'[w] # pw[w] =>
          /\ pw[w] = "busy" => pw'[w] = "settled"
          /\ pw'[w] = "settled" => pw[w] = "busy"
          /\ pw[w] = "settled" => pw'[w] = "mark"
          /\ pw'[w] = "mark" => pw[w] \in {"none", "select", "settled"}
          /\ pw'[w] = "busy" => pw[w] = "select"
          /\ pw'[w] = "exit" => pw[w] = "select"
    ]_vars

\* the context is cancelled, a worker has just settled its delivery and
\* another is still processing one
C23_Witness ==
  /\ ctxDone
  /\ \E w \in Slots : pw[w] = "settled"
  /\ \E w \in Slots : pw[w] = "busy"

\* C24: once the context is cancelled, the dispatcher does not terminate
\* without having closed the dispatch channel.
C24_DispatcherClosesChannel ==
  (ctxDone /\ dpc = "done") => taskClosed

\* C25: the idle timer of a worker is armed when its job completes: at the
\* step that takes the worker from processMessage back to the loop, a full
\* idle period lies ahead before the timer can make the worker exit.
C25_TimerArmedWhenJobCompletes ==
  [][ \A w \in Slots :
        (pw[w] = "settled" /\ pw'[w] = "mark") => ptimer'[w] = "armed"
    ]_vars

(***************************************************************************)
(* Claims about the top-K merge (checked under SpecMerge)                  *)
(***************************************************************************)
\* how many entries of a list score more than v
NumAbove(list, v) == Cardinality({ i \in 1..Len(list) : list[i].Score > v })

\* C26: for topK >= 1 the merge returns min(topK, number of candidates)
\* entries, every one of them a candidate; their scores are the largest
\* scores among the candidates, counted with multiplicity, and they are
\* listed in non-increasing score order.
C26_MergeKeepsLargestScores ==
  (Returned /\ topK >= 1) =>
    LET all == scoreAll(shardResponses)
        n == Len(all)
        m == IF topK < n THEN topK ELSE n
    IN  /\ qout.kind = "ok"
        /\ Len(qout.res) = m
        /\ \A i \in 1..Len(qout.res) : \E c \in 1..n : all[c] = qout.res[i]
        /\ \A c \in 1..n :
             LET above == NumAbove(all, all[c].Score)
             IN  NumAbove(qout.res, all[c].Score) = (IF above < m THEN above ELSE m)
        /\ \A i \in 1..(Len(qout.res) - 1) : qout.res[i].Score >= qout.res[i + 1].Score

\* more candidates than topK, of different scores: the merge has replaced
\* the heap's minimum and left out the first candidate
C26_Witness ==
  /\ Returned
  /\ topK = 2
  /\ Len(scoreAll(shardResponses)) = 4
  /\ Len(qout.res) = 2
  /\ qout.res[1].Score > qout.res[2].Score
  /\ scoreAll(shardResponses)[1].Score < qout.res[2].Score

(***************************************************************************)
(* Claims about routing (checked under SpecSearch)                         *)
(***************************************************************************)
\* C27: the terms Search routes are free of repetitions, so no shard is
\* asked for the same term twice and no shard response lists a document
\* twice for a query that repeats one word.
C27_TermsDeduplicated ==
  qpc # "start" =>
    /\ \A i, j \in 1..Len(query) : query[i] = query[j] => i = j
    /\ \A sh \in DOMAIN shState :
         LET ts == termsFor(query, sh, 1)
         IN  \A i, j \in 1..Len(ts) : ts[i] = ts[j] => i = j

\* C28: every term is routed to exactly one shard, whose index is in
\* 0..ShardCount-1 and depends only on the term and ShardCount, and the
\* routed lists together hold exactly the terms of the query.
C28_ShardIndexInRange ==
  qpc # "start" =>
    /\ \A sh \in DOMAIN shState : sh \in 0..(ShardCount - 1)
    /\ \A i \in 1..Len(query) :
         \E sh \in DOMAIN shState :
           /\ \E k \in 1..Len(termsFor(query, sh, 1)) : termsFor(query, sh, 1)[k] = query[i]
           /\ \A other \in DOMAIN shState \ {sh} :
                \A k \in 1..Len(termsFor(query, other, 1)) : termsFor(query, other, 1)[k] # query[i]

\* C29: a scaling evaluation terminates no worker, does not decrease
\* active and does not change idle; all it can do is spawn workers.
C29_EvaluationOnlySpawns ==
  [][ ( /\ spc \in {"wait", "spawn"}
        /\ spc' \in {"wait", "spawn"}
        /\ (spc' # spc \/ sleft' # sleft) )
      => /\ idleWorkers' = idleWorkers
         /\ activeWorkers' >= activeWorkers
         /\ taskLen' = taskLen
         /\ \A w \in Slots : pw[w] # "none" => pw'[w] = pw[w]
         /\ \A w \in Slots : pw'[w] # pw[w] => pw'[w] = "mark"
    ]_vars

\* an evaluation is at its SCALE DOWN branch with idle and active both
\* above minWorkers
C29_Witness ==
  /\ spc = "spawn"
  /\ sleft = 0
  /\ idleWorkers > minWorkers
  /\ activeWorkers > minWorkers
  /\ Cardinality({ w \in Slots : pw[w] = "select" }) > minWorkers

(***************************************************************************)
(* Claims about repeated processing (checked under SpecText)               *)
(***************************************************************************)
\* C30: however often a job is processed, every (term, doc_id) key holds at
\* most one row, and once one run has written all its batches the rows of
\* the document are those of a single run: one row per distinct term of the
\* text, with that term's frequency and positions.
C30_ReprocessingIsIdempotent ==
  LET once == groupTokens(<<>>, tokIdx.tokens, 1) IN
    /\ \A x \in DOMAIN tokTable.rows :
         /\ Len(tokTable.rows[x]) = 1
         /\ x \in DOMAIN once
         /\ tokTable.rows[x][1] = [term_frequency |-> once[x].Frequency,
                                   positions |-> once[x].Positions]
    /\ tokTable.complete => DOMAIN tokTable.rows = DOMAIN once

\* the job was processed twice, one batch per term, and after a run that
\* wrote all its batches the document has rows for three terms
C30_Witness ==
  /\ tokTable.runs = 2
  /\ tokTable.complete
  /\ Cardinality(DOMAIN tokTable.rows) = 3
  /\ tokBatchSize = 1
  /\ \E x \in DOMAIN tokTable.rows : tokTable.rows[x][1].term_frequency = 1

(***************************************************************************)
(* Claims about the document record (checked under SpecWorker)             *)
(***************************************************************************)
\* C31: the document record of an indexed job carries the job's non-empty
\* file_path and a total_terms equal to the number of tokens of the document.
C31_RecordHasPathAndTotalTerms ==
  \A j \in documents :
    /\ docRow[j].file_path = FilePath
    /\ docRow[j].file_path # ""
    /\ docRow[j].total_terms = jobs[j].nwords

C33_StrictlyMonotone ==
  bmOut.done =>
    /\ scoreOf([bmArgs EXCEPT !.tf = @ + 1]) > bmOut.score
    /\ scoreOf([bmArgs EXCEPT !.docFreq = @ + 1]) < bmOut.score

\* C34: a worker that is about to settle the delivery of a failed job acks it
\* only when consumer.Publish returned nil for the copy, and nacks it (without
\* requeue) when consumer.Publish failed; a failed delivery is never acked
\* without a republished copy.
C34_AckOnlyAfterRepublish ==
  \A w \in DOMAIN wpc :
    (wpc[w] = "settle" /\ werr[w] # "none") =>
      /\ wsettle[w] = "ack" => (wpub[w] # <<>> /\ wpub[w][1] = "ok")
      /\ (wpub[w] # <<>> /\ wpub[w][1] = "fail") => wsettle[w] = "nack"
      /\ wsettle[w] \in {"ack", "nack"}

\* one worker holds a failed delivery whose copy was published and acks it,
\* while another holds a failed delivery whose republish failed and nacks it
C34_Witness ==
  \E w1 \in DOMAIN wpc, w2 \in DOMAIN wpc :
    /\ wpc[w1] = "settle" /\ werr[w1] # "none"
    /\ wpub[w1] # <<>> /\ wpub[w1][1] = "ok" /\ wsettle[w1] = "ack"
    /\ wpc[w2] = "settle" /\ werr[w2] # "none"
    /\ wpub[w2] # <<>> /\ wpub[w2][1] = "fail" /\ wsettle[w2] = "nack"

\* C35: activeWorkers equals the number of worker goroutines that have been
\* spawned and have not yet run their deferred exit: every spawn adds one before
\* the goroutine starts and every exit (idle timeout, context cancelled,
\* channel closed) takes one off.
C35_ActiveCountsLiveWorkers ==
  activeWorkers = Cardinality({ w \in Slots : pw[w] # "none" })

\* a worker has exited (its slot, below a running worker's, is free again)
\* while another worker is still running
C35_Witness ==
  /\ startPc = "done"
  /\ \E w \in Slots, v \in Slots :
       w < v /\ pw[w] = "none" /\ pw[v] \notin {"none", "exit"}
  /\ activeWorkers >= 1

C37_ShardGoroutinesNeverBlock ==
  /\ \A sh \in DOMAIN shState : shState[sh] = "run" => shardCanSend
  /\ chClosed => \A sh \in DOMAIN shState : shState[sh] # "run"
  /\ (qpc # "start" /\ ~chClosed /\ \A sh \in DOMAIN shState : shState[sh] # "run")
       => ENABLED CloseResults

\* Search has returned on a shard error, a second shard goroutine has
\* delivered its result afterwards, and the channel has been closed
C37_Witness ==
  /\ qpc = "done"
  /\ qout.kind = "error"
  /\ Cardinality(DOMAIN shState) = 2
  /\ Len(resultsCh) = 1
  /\ chClosed

\* C38: a delivery whose download or extraction fails is nacked with requeue,
\* whatever its x-retry-count header or redelivered flag says (no retry limit,
\* no dead-lettering); a delivery nacked without requeue is one whose body
\* failed JSON decoding.
C38_DownloadFailureIsRequeued ==
  pmOut.done =>
    /\ pmIn.outcome = "download" => (pmOut.call = "nack" /\ pmOut.requeue)
    /\ pmIn.outcome = "parse" => (pmOut.call = "nack" /\ ~pmOut.requeue)
    /\ (pmOut.call = "nack" /\ ~pmOut.requeue) => pmIn.outcome = "parse"

\* a redelivered message that already carries a retry count at the
\* IndexingWorker limit fails its download and is requeued once more
C38_Witness ==
  /\ pmOut.done
  /\ pmIn.outcome = "download"
  /\ pmIn.retryCount >= maxRetries
  /\ pmIn.redelivered
  /\ pmOut.call = "nack"
  /\ pmOut.requeue

\* C39: once the delivery channel is closed every worker goroutine returns,
\* yet Start stays blocked until ctx is cancelled; and a Start that returns
\* after Consume succeeded returns ctx.Err(), which is then not nil.
C39_StartWaitsForCancel ==
  /\ (imsgs = "closed") ~> (\A w \in Workers : wpc[w] = "stopped")
  /\ [](istart = "returned" => (ictx /\ ctxErr(ictx) # "nil"))

\* the channel was closed, every worker has returned, ctx is not cancelled
\* and Start is still waiting
C39_Witness ==
  /\ imsgs = "closed"
  /\ ~ictx
  /\ \A w \in Workers : wpc[w] = "stopped"
  /\ istart = "wait"

\* C40: when Shutdown has finished waiting for the workers, no delivery
\* taken from the broker is left unsettled in the process: none is buffered
\* in the dispatch channel, none is held by the dispatcher, none by a worker.
C40_NothingLeftUnsettled ==
  startPc = "stopped" =>
    /\ taskLen = 0
    /\ dpc # "send"
    /\ \A w \in Slots : pw[w] \notin {"busy", "unsettled"}

====
